---- MODULE Spec2Model ----
(***************************************************************************)
(* A model of the ALSA capture source of PulseAudio                        *)
(* (src/modules/alsa/alsa-source.c): the buffer geometry kept in struct    *)
(* userdata, the two read paths, the capture thread's main loop and the    *)
(* state messages it handles.                                              *)
(*                                                                         *)
(* Sizes are bytes, times are microseconds, as in the source.  size_t and  *)
(* pa_usec_t are unsigned 64-bit: a model integer n < 0 stands for the     *)
(* wrapped value 2^64 + n, so that +, - agree with the machine arithmetic  *)
(* and ULess is the machine's unsigned comparison.                         *)
(***************************************************************************)
EXTENDS Integers, Sequences, FiniteSets, TLC

VARIABLES
    u,        \* struct userdata, with the thread-side fields of u->source
    th,       \* the capture thread: its position and the locals of thread_func and of the read path
    inq,      \* thread_mq.inq: the message the main thread has in flight
    mainth,   \* the main thread: its position and its side of the source state
    posted,   \* bytes handed to pa_source_post so far
    unload,   \* PA_CORE_MESSAGE_UNLOAD_MODULE requests posted to thread_mq.outq
    hw,       \* frames the device will still deliver
    faults,   \* driver failures still to come
    snap      \* the configuration and read_count at the last suspend

vars == << u, th, inq, mainth, posted, unload, hw, faults, snap >>

(***************************************************************************)
(* Program constants.                                                      *)
(***************************************************************************)
PA_USEC_PER_SEC == 1000000
PA_USEC_PER_MSEC == 1000
DEFAULT_TSCHED_WATERMARK_USEC == 20 * PA_USEC_PER_MSEC
TSCHED_WATERMARK_STEP_USEC == 10 * PA_USEC_PER_MSEC
TSCHED_MIN_SLEEP_USEC == 10 * PA_USEC_PER_MSEC
TSCHED_MIN_WAKEUP_USEC == 4 * PA_USEC_PER_MSEC

\* (pa_usec_t) -1: no latency requested
NoLatency == 0 - 1

(***************************************************************************)
(* Unsigned arithmetic and the helper macros and conversions the source    *)
(* uses (pulsecore/macro.h, pulse/sample.c, pulsecore/sample-util.c).      *)
(***************************************************************************)
\* a local variable: F applied to the value of v, which is computed once
With(v, F(_)) ==
    CHOOSE r \in { F(x) : x \in {v} } : TRUE

ULess(a, b) ==
    IF (a < 0) = (b < 0) THEN a < b ELSE b < 0

PA_MIN(a, b) ==
    IF ULess(a, b) THEN a ELSE b

\* ((x > high) ? high : ((x < low) ? low : x))
PA_CLAMP(x, low, high) ==
    IF ULess(high, x) THEN high ELSE IF ULess(x, low) THEN low ELSE x

pa_usec_to_bytes(t, ss) ==
    ((t * ss.rate) \div PA_USEC_PER_SEC) * ss.frame_size

pa_bytes_to_usec(length, ss) ==
    ((length \div ss.frame_size) * PA_USEC_PER_SEC) \div ss.rate

pa_bytes_to_usec_round_up(length, ss) ==
    (((length + ss.frame_size - 1) \div ss.frame_size) * PA_USEC_PER_SEC
        + ss.rate - 1) \div ss.rate

pa_usec_to_bytes_round_up(t, ss) ==
    ((t * ss.rate + PA_USEC_PER_SEC - 1) \div PA_USEC_PER_SEC) * ss.frame_size

pa_frame_align(l, ss) ==
    (l \div ss.frame_size) * ss.frame_size

\* u->source->sample_spec
sample_spec(w) ==
    [rate |-> w.rate, frame_size |-> w.frame_size]

(***************************************************************************)
(* Buffer geometry.                                                        *)
(***************************************************************************)
\* as fix_min_sleep_wakeup, but clamping to the whole usable buffer, not its half
fix_min_sleep_wakeup_whole(w) ==
    LET max_use == w.hwbuf_size - w.hwbuf_unused
    IN  [w EXCEPT
            !.min_sleep = PA_CLAMP(pa_usec_to_bytes(TSCHED_MIN_SLEEP_USEC, sample_spec(w)),
                                   w.frame_size, max_use),
            !.min_wakeup = PA_CLAMP(pa_usec_to_bytes(TSCHED_MIN_WAKEUP_USEC, sample_spec(w)),
                                    w.frame_size, max_use)]

fix_min_sleep_wakeup(w) ==
    LET max_use == w.hwbuf_size - w.hwbuf_unused
        max_use_2 == pa_frame_align(max_use \div 2, sample_spec(w))
    IN  [w EXCEPT
            !.min_sleep = PA_CLAMP(pa_usec_to_bytes(TSCHED_MIN_SLEEP_USEC, sample_spec(w)),
                                   w.frame_size, max_use_2),
            !.min_wakeup = PA_CLAMP(pa_usec_to_bytes(TSCHED_MIN_WAKEUP_USEC, sample_spec(w)),
                                    w.frame_size, max_use_2)]

\* as fix_tsched_watermark, but without the upper clamp
fix_tsched_watermark_no_upper(w) ==
    IF ULess(w.tsched_watermark, w.min_wakeup)
    THEN [w EXCEPT !.tsched_watermark = w.min_wakeup]
    ELSE w

fix_tsched_watermark(w) ==
    LET max_use == w.hwbuf_size - w.hwbuf_unused
        lower(w1) == IF ULess(w1.tsched_watermark, w1.min_wakeup)
                     THEN [w1 EXCEPT !.tsched_watermark = w1.min_wakeup]
                     ELSE w1
    IN  With(IF ULess(max_use - w.min_sleep, w.tsched_watermark)
             THEN [w EXCEPT !.tsched_watermark = max_use - w.min_sleep]
             ELSE w,
             lower)

\* pa_source_set_latency_range_within_thread: the source's thread-side range
pa_source_set_latency_range_within_thread(w, min_latency, max_latency) ==
    [w EXCEPT !.min_latency = min_latency, !.max_latency = max_latency]

\* an adjuster that, once the latency is raised, starts the watermark over
adjust_after_overrun_restart(w) ==
    LET old_watermark == w.tsched_watermark
        w1 == fix_tsched_watermark(
                [w EXCEPT !.tsched_watermark =
                    PA_MIN(w.tsched_watermark * 2, w.tsched_watermark + w.watermark_step)])
        old_min_latency == w.min_latency
        new_min_latency ==
            PA_MIN(PA_MIN(old_min_latency * 2, old_min_latency + TSCHED_WATERMARK_STEP_USEC),
                   w.max_latency)
    IN  IF old_watermark # w1.tsched_watermark
        THEN w1
        ELSE IF old_min_latency # new_min_latency
             THEN pa_source_set_latency_range_within_thread(
                      [w1 EXCEPT !.tsched_watermark = w1.min_wakeup],
                      new_min_latency, w1.max_latency)
             ELSE w1

\* as adjust_after_overrun, but raising the minimum latency along with the watermark
adjust_after_overrun_both(w) ==
    LET w1 == fix_tsched_watermark(
                [w EXCEPT !.tsched_watermark =
                    PA_MIN(w.tsched_watermark * 2, w.tsched_watermark + w.watermark_step)])
        new_min_latency ==
            PA_MIN(PA_MIN(w.min_latency * 2, w.min_latency + TSCHED_WATERMARK_STEP_USEC),
                   w.max_latency)
    IN  pa_source_set_latency_range_within_thread(w1, new_min_latency, w1.max_latency)

\* as adjust_after_overrun, but without clamping the new minimum latency
adjust_after_overrun_unclamped(w) ==
    LET old_watermark == w.tsched_watermark
        w1 == fix_tsched_watermark(
                [w EXCEPT !.tsched_watermark =
                    PA_MIN(w.tsched_watermark * 2, w.tsched_watermark + w.watermark_step)])
        new_min_latency ==
            PA_MIN(w.min_latency * 2, w.min_latency + TSCHED_WATERMARK_STEP_USEC)
    IN  IF old_watermark # w1.tsched_watermark
        THEN w1
        ELSE pa_source_set_latency_range_within_thread(w1, new_min_latency, w1.max_latency)

adjust_after_overrun(w) ==
    LET old_watermark == w.tsched_watermark
        w1 == fix_tsched_watermark(
                [w EXCEPT !.tsched_watermark =
                    PA_MIN(w.tsched_watermark * 2, w.tsched_watermark + w.watermark_step)])
        old_min_latency == w.min_latency
        new_min_latency ==
            PA_MIN(PA_MIN(old_min_latency * 2, old_min_latency + TSCHED_WATERMARK_STEP_USEC),
                   w.max_latency)
    IN  IF old_watermark # w1.tsched_watermark
        THEN w1
        ELSE IF old_min_latency # new_min_latency
             THEN pa_source_set_latency_range_within_thread(w1, new_min_latency, w1.max_latency)
             ELSE w1

\* pa_source_get_requested_latency_within_thread
pa_source_get_requested_latency_within_thread(w) ==
    w.requested_latency

\* as hw_sleep_time, but taking the watermark as it is
hw_sleep_time_whole_watermark(w) ==
    LET req == pa_source_get_requested_latency_within_thread(w)
        usec == IF req = NoLatency THEN pa_bytes_to_usec(w.hwbuf_size, sample_spec(w)) ELSE req
        wm == pa_bytes_to_usec(w.tsched_watermark, sample_spec(w))
    IN  [sleep_usec |-> usec - wm, process_usec |-> wm, usec |-> usec]

\* The two results of hw_sleep_time and its return value
hw_sleep_time(w) ==
    LET req == pa_source_get_requested_latency_within_thread(w)
        usec == IF req = NoLatency THEN pa_bytes_to_usec(w.hwbuf_size, sample_spec(w)) ELSE req
        wm0 == pa_bytes_to_usec(w.tsched_watermark, sample_spec(w))
        wm == IF ULess(usec, wm0) THEN usec \div 2 ELSE wm0
    IN  [sleep_usec |-> usec - wm, process_usec |-> wm, usec |-> usec]

\* as update_sw_params, but always asking the driver for avail_min = 1
update_sw_params_avail_one(w, sw_ok) ==
    LET w0 == [w EXCEPT !.hwbuf_unused = 0]
        latency == pa_source_get_requested_latency_within_thread(w0)
        b0 == pa_usec_to_bytes(latency, sample_spec(w0))
        b == IF ULess(b0, w0.frame_size) THEN w0.frame_size ELSE b0
        \* lines 675-693: the unused part of the buffer
        unused == IF w0.use_tsched /\ latency # NoLatency
                  THEN [w0 EXCEPT !.hwbuf_unused =
                          IF ULess(b, w0.hwbuf_size) THEN w0.hwbuf_size - b ELSE 0]
                  ELSE w0
        \* lines 695-698: the watermark
        watermark(w1) == IF w1.use_tsched
                         THEN With(fix_min_sleep_wakeup(w1), fix_tsched_watermark)
                         ELSE w1
        \* lines 700-716: avail_min and the sw-params
        sw_params(w1) ==
            LET avail_min ==
                    1
            IN  << IF sw_ok THEN [w1 EXCEPT !.avail_min = avail_min] ELSE w1,
                   IF sw_ok THEN 0 ELSE 0 - 1 >>
    IN  With(With(unused, watermark), sw_params)

\* as update_sw_params, but taking the latency in bytes as it is
update_sw_params_no_floor(w, sw_ok) ==
    LET w0 == [w EXCEPT !.hwbuf_unused = 0]
        latency == pa_source_get_requested_latency_within_thread(w0)
        b0 == pa_usec_to_bytes(latency, sample_spec(w0))
        b == b0
        \* lines 675-693: the unused part of the buffer
        unused == IF w0.use_tsched /\ latency # NoLatency
                  THEN [w0 EXCEPT !.hwbuf_unused =
                          IF ULess(b, w0.hwbuf_size) THEN w0.hwbuf_size - b ELSE 0]
                  ELSE w0
        \* lines 695-698: the watermark
        watermark(w1) == IF w1.use_tsched
                         THEN With(fix_min_sleep_wakeup(w1), fix_tsched_watermark)
                         ELSE w1
        \* lines 700-716: avail_min and the sw-params
        sw_params(w1) ==
            LET avail_min ==
                    IF w1.use_tsched
                    THEN 1 + pa_usec_to_bytes(hw_sleep_time(w1).sleep_usec, sample_spec(w1))
                               \div w1.frame_size
                    ELSE 1
            IN  << IF sw_ok THEN [w1 EXCEPT !.avail_min = avail_min] ELSE w1,
                   IF sw_ok THEN 0 ELSE 0 - 1 >>
    IN  With(With(unused, watermark), sw_params)

\* sw_ok: whether pa_alsa_set_sw_params succeeds.  The second component is
\* the return value (0, or the driver's error).
update_sw_params(w, sw_ok) ==
    LET w0 == [w EXCEPT !.hwbuf_unused = 0]
        latency == pa_source_get_requested_latency_within_thread(w0)
        b0 == pa_usec_to_bytes(latency, sample_spec(w0))
        b == IF ULess(b0, w0.frame_size) THEN w0.frame_size ELSE b0
        \* lines 675-693: the unused part of the buffer
        unused == IF w0.use_tsched /\ latency # NoLatency
                  THEN [w0 EXCEPT !.hwbuf_unused =
                          IF ULess(b, w0.hwbuf_size) THEN w0.hwbuf_size - b ELSE 0]
                  ELSE w0
        \* lines 695-698: the watermark
        watermark(w1) == IF w1.use_tsched
                         THEN With(fix_min_sleep_wakeup(w1), fix_tsched_watermark)
                         ELSE w1
        \* lines 700-716: avail_min and the sw-params
        sw_params(w1) ==
            LET avail_min ==
                    IF w1.use_tsched
                    THEN 1 + pa_usec_to_bytes(hw_sleep_time(w1).sleep_usec, sample_spec(w1))
                               \div w1.frame_size
                    ELSE 1
            IN  << IF sw_ok THEN [w1 EXCEPT !.avail_min = avail_min] ELSE w1,
                   IF sw_ok THEN 0 ELSE 0 - 1 >>
    IN  With(With(unused, watermark), sw_params)

\* a check_left_to_record that reports an overrun without adjusting to it
check_left_to_record_no_adjust(w, n_bytes) ==
    LET rec_space == w.hwbuf_size - w.hwbuf_unused
    IN  IF ~ULess(rec_space, n_bytes)
        THEN << w, rec_space - n_bytes >>
        ELSE << w, 0 >>

\* n_bytes as reported by avail; the second component is left_to_record
check_left_to_record(w, n_bytes) ==
    LET rec_space == w.hwbuf_size - w.hwbuf_unused
    IN  IF ~ULess(rec_space, n_bytes)
        THEN << w, rec_space - n_bytes >>
        ELSE << IF w.use_tsched THEN adjust_after_overrun(w) ELSE w, 0 >>

(***************************************************************************)
(* Suspend and resume.                                                     *)
(***************************************************************************)
\* the observable configuration of the engine
Config(w) ==
    [nfragments |-> w.nfragments, fragment_size |-> w.fragment_size,
     rate |-> w.rate, frame_size |-> w.frame_size,
     use_mmap |-> w.use_mmap, use_tsched |-> w.use_tsched]

\* a suspend that closes the handle and keeps the poll-fd item
suspend_keeping_item(w) ==
    [w EXCEPT !.smoother_paused = TRUE,
              !.pcm_handle = FALSE]

\* a suspend that closes the handle and lets the smoother run on
suspend_without_pause(w) ==
    [w EXCEPT !.pcm_handle = FALSE,
              !.alsa_rtpoll_item = FALSE]

suspend(w) ==
    [w EXCEPT !.smoother_paused = TRUE,
              !.pcm_handle = FALSE,
              !.alsa_rtpoll_item = FALSE]

\* a build_pollfd that reports success without looking at the item
build_pollfd_unchecked(w, pollfd_ok) ==
    << [w EXCEPT !.alsa_rtpoll_item = pollfd_ok], 0 >>

\* pollfd_ok: whether pa_alsa_build_pollfd returns an item
build_pollfd(w, pollfd_ok) ==
    << [w EXCEPT !.alsa_rtpoll_item = pollfd_ok], IF pollfd_ok THEN 0 ELSE 0 - 1 >>

\* What the driver answers to a message handler: whether snd_pcm_open and
\* pa_alsa_set_hw_params succeed, the access modes granted, how far the
\* negotiated rate, fragment count and period size are from the ones asked
\* for, and whether the sw-params and the poll descriptors can be set up.
AllFine ==
    [open_ok |-> TRUE, hw_ok |-> TRUE, b |-> TRUE, d |-> TRUE, rate_off |-> 0,
     nfrags_off |-> 0, period_off |-> 0, sw_ok |-> TRUE, pollfd_ok |-> TRUE,
     now2 |-> 0]

\* the answers to a resume: all fine, or one step of unsuspend going wrong
ResumeAnswers ==
    { AllFine,
      [AllFine EXCEPT !.open_ok = FALSE],
      [AllFine EXCEPT !.hw_ok = FALSE],
      [AllFine EXCEPT !.b = FALSE],
      [AllFine EXCEPT !.d = FALSE],
      [AllFine EXCEPT !.rate_off = 1],
      [AllFine EXCEPT !.nfrags_off = 1],
      [AllFine EXCEPT !.period_off = 1],
      [AllFine EXCEPT !.sw_ok = FALSE],
      [AllFine EXCEPT !.pollfd_ok = FALSE] }

\* pa_alsa_set_hw_params grants an access mode only if it was asked for
GrantedMmap(asked, d) ==
    asked /\ d.b

GrantedTsched(asked_mmap, asked_tsched, d) ==
    asked_tsched /\ GrantedMmap(asked_mmap, d) /\ d.d

\* an unsuspend that takes over whatever the driver has settled on
unsuspend_adopt(w, d) ==
    LET b == GrantedMmap(w.use_mmap, d)
        dd == GrantedTsched(w.use_mmap, w.use_tsched, d)
        neg == [nfragments |-> w.nfragments + d.nfrags_off,
                fragment_size |-> w.fragment_size + d.period_off * w.frame_size,
                rate |-> w.rate + d.rate_off, frame_size |-> w.frame_size,
                use_mmap |-> b, use_tsched |-> dd]
    IN  IF d.open_ok /\ d.hw_ok
        THEN << [w EXCEPT !.pcm_handle = TRUE, !.alsa_rtpoll_item = TRUE,
                          !.smoother_paused = FALSE, !.negotiated = neg,
                          !.nfragments = neg.nfragments,
                          !.fragment_size = neg.fragment_size,
                          !.rate = neg.rate,
                          !.use_mmap = b, !.use_tsched = dd], 0 >>
        ELSE << w, 0 - 1 >>

\* an unsuspend that does not compare what the driver has settled on
unsuspend_unchecked(w, d) ==
    LET b == GrantedMmap(w.use_mmap, d)
        dd == GrantedTsched(w.use_mmap, w.use_tsched, d)
        neg == [nfragments |-> w.nfragments + d.nfrags_off,
                fragment_size |-> w.fragment_size + d.period_off * w.frame_size,
                rate |-> w.rate + d.rate_off, frame_size |-> w.frame_size,
                use_mmap |-> b, use_tsched |-> dd]
    IN  IF d.open_ok /\ d.hw_ok
        THEN << [w EXCEPT !.pcm_handle = TRUE, !.alsa_rtpoll_item = TRUE,
                          !.smoother_paused = FALSE, !.negotiated = neg], 0 >>
        ELSE << w, 0 - 1 >>

unsuspend(w, d) ==
    LET ss == [rate |-> w.rate + d.rate_off, frame_size |-> w.frame_size]
        nfrags == w.nfragments + d.nfrags_off
        period_size == (w.fragment_size \div w.frame_size) + d.period_off
        b == GrantedMmap(w.use_mmap, d)
        dd == GrantedTsched(w.use_mmap, w.use_tsched, d)
        \* what the driver has settled on (the locals of unsuspend)
        neg == [nfragments |-> nfrags, fragment_size |-> period_size * w.frame_size,
                rate |-> ss.rate, frame_size |-> ss.frame_size,
                use_mmap |-> b, use_tsched |-> dd]
        opened == [w EXCEPT !.pcm_handle = TRUE, !.negotiated = neg]
        failed == << [w EXCEPT !.pcm_handle = FALSE, !.negotiated = neg], 0 - 1 >>
        \* lines 770-783: the poll descriptors, the start, the smoother
        start(pf) ==
            IF pf[2] < 0 THEN << [pf[1] EXCEPT !.pcm_handle = FALSE], 0 - 1 >>
            ELSE << [pf[1] EXCEPT !.smoother_paused = FALSE], 0 >>
        \* lines 767-771: the sw-params
        params(sw) ==
            IF sw[2] < 0 THEN << [sw[1] EXCEPT !.pcm_handle = FALSE], 0 - 1 >>
            ELSE With(build_pollfd(sw[1], d.pollfd_ok), start)
    IN  IF ~d.open_ok THEN << w, 0 - 1 >>
        ELSE IF ~d.hw_ok THEN << [w EXCEPT !.pcm_handle = FALSE], 0 - 1 >>
        ELSE IF b # w.use_mmap \/ dd # w.use_tsched THEN failed
        ELSE IF ss # sample_spec(w) THEN failed
        ELSE IF nfrags # w.nfragments \/ period_size * w.frame_size # w.fragment_size
             THEN failed
        ELSE With(update_sw_params(opened, d.sw_ok), params)

source_update_requested_latency_cb(w, sw_ok) ==
    IF ~w.pcm_handle THEN w ELSE update_sw_params(w, sw_ok)[1]

\* a constructor that keeps timer scheduling whenever the driver grants it,
\* memory-mapped access or not
pa_alsa_source_new_tsched_on_d(a) ==
    LET use_tsched0 == a.tsched /\ a.hrtimer
        b == a.mmap /\ a.b
        d == use_tsched0 /\ a.d
        use_mmap == IF a.mmap /\ ~b THEN FALSE ELSE a.mmap
        use_tsched == IF use_tsched0 /\ ~d THEN FALSE ELSE use_tsched0
        tsched_watermark ==
            IF a.wm_arg = NoLatency
            THEN pa_usec_to_bytes(DEFAULT_TSCHED_WATERMARK_USEC, a.req_ss)
            ELSE a.wm_arg
        frame_size == a.ss.frame_size
        fragment_size == a.period_frames * frame_size
        hwbuf_size == fragment_size * a.nfrags
        w0 == [ frame_size |-> frame_size,
                rate |-> a.ss.rate,
                fragment_size |-> fragment_size,
                nfragments |-> a.nfrags,
                hwbuf_size |-> hwbuf_size,
                hwbuf_unused |-> 0,
                tsched_watermark |->
                    pa_usec_to_bytes_round_up(
                        pa_bytes_to_usec_round_up(tsched_watermark, a.req_ss), a.ss),
                min_sleep |-> 0,
                min_wakeup |-> 0,
                watermark_step |-> 0,
                use_mmap |-> use_mmap,
                use_tsched |-> use_tsched,
                min_latency |-> IF use_tsched THEN a.min_latency
                                ELSE pa_bytes_to_usec(hwbuf_size, a.ss),
                max_latency |-> pa_bytes_to_usec(hwbuf_size, a.ss),
                requested_latency |-> NoLatency,
                avail_min |-> 0,
                pcm_handle |-> TRUE,
                alsa_rtpoll_item |-> FALSE,
                smoother_paused |-> FALSE,
                state |-> "INIT",
                read_count |-> 0,
                \* the PA_ONCE sites that have run (static to the process,
                \* kept with the one engine of the model) and the number
                \* of driver-bug warnings logged
                once |-> {},
                warnings |-> 0,
                \* what the driver has settled on (the locals b, d, ss,
                \* nfrags and period_frames after pa_alsa_open_by_*)
                negotiated |-> [nfragments |-> a.nfrags, fragment_size |-> fragment_size,
                                rate |-> a.ss.rate, frame_size |-> frame_size,
                                use_mmap |-> use_mmap, use_tsched |-> use_tsched] ]
        w1 == IF use_tsched
              THEN [fix_tsched_watermark(fix_min_sleep_wakeup(w0)) EXCEPT
                        !.watermark_step =
                            pa_usec_to_bytes(TSCHED_WATERMARK_STEP_USEC, a.ss)]
              ELSE w0
    IN  update_sw_params(w1, TRUE)[1]

(***************************************************************************)
(* Construction.                                                           *)
(***************************************************************************)
\* a: the module arguments and what the driver negotiates on open
\*    mmap, tsched, hrtimer : BOOLEAN; wm_arg : the tsched_buffer_watermark
\*    argument in bytes, or NoLatency for the default; req_ss : the sample
\*    spec asked for; ss, nfrags, period_frames, b, d : the driver's answer;
\*    min_latency : the minimum latency the source core starts with
pa_alsa_source_new(a) ==
    LET use_tsched0 == a.tsched /\ a.hrtimer
        b == a.mmap /\ a.b
        d == use_tsched0 /\ a.d
        use_mmap == IF a.mmap /\ ~b THEN FALSE ELSE a.mmap
        use_tsched == IF use_tsched0 /\ (~b \/ ~d) THEN FALSE ELSE use_tsched0
        tsched_watermark ==
            IF a.wm_arg = NoLatency
            THEN pa_usec_to_bytes(DEFAULT_TSCHED_WATERMARK_USEC, a.req_ss)
            ELSE a.wm_arg
        frame_size == a.ss.frame_size
        fragment_size == a.period_frames * frame_size
        hwbuf_size == fragment_size * a.nfrags
        w0 == [ frame_size |-> frame_size,
                rate |-> a.ss.rate,
                fragment_size |-> fragment_size,
                nfragments |-> a.nfrags,
                hwbuf_size |-> hwbuf_size,
                hwbuf_unused |-> 0,
                tsched_watermark |->
                    pa_usec_to_bytes_round_up(
                        pa_bytes_to_usec_round_up(tsched_watermark, a.req_ss), a.ss),
                min_sleep |-> 0,
                min_wakeup |-> 0,
                watermark_step |-> 0,
                use_mmap |-> use_mmap,
                use_tsched |-> use_tsched,
                min_latency |-> IF use_tsched THEN a.min_latency
                                ELSE pa_bytes_to_usec(hwbuf_size, a.ss),
                max_latency |-> pa_bytes_to_usec(hwbuf_size, a.ss),
                requested_latency |-> NoLatency,
                avail_min |-> 0,
                pcm_handle |-> TRUE,
                alsa_rtpoll_item |-> FALSE,
                smoother_paused |-> FALSE,
                state |-> "INIT",
                read_count |-> 0,
                \* the PA_ONCE sites that have run (static to the process,
                \* kept with the one engine of the model) and the number
                \* of driver-bug warnings logged
                once |-> {},
                warnings |-> 0,
                \* what the driver has settled on (the locals b, d, ss,
                \* nfrags and period_frames after pa_alsa_open_by_*)
                negotiated |-> [nfragments |-> a.nfrags, fragment_size |-> fragment_size,
                                rate |-> a.ss.rate, frame_size |-> frame_size,
                                use_mmap |-> use_mmap, use_tsched |-> use_tsched] ]
        w1 == IF use_tsched
              THEN [fix_tsched_watermark(fix_min_sleep_wakeup(w0)) EXCEPT
                        !.watermark_step =
                            pa_usec_to_bytes(TSCHED_WATERMARK_STEP_USEC, a.ss)]
              ELSE w0
    IN  update_sw_params(w1, TRUE)[1]

(***************************************************************************)
(* The inputs the model draws from.                                        *)
(***************************************************************************)
Rates == {50, 200, 1000}

FrameSizes == {1, 4}

SampleSpecs == [rate : Rates, frame_size : FrameSizes]

PeriodFrames == {1, 4}

NFrags == {1, 3}

\* tsched_buffer_watermark= in bytes; NoLatency stands for "not given"
WatermarkArgs == {NoLatency, 0, 64}

InitMinLatencies == {500, 4000}

\* the latencies a consumer may request, in usec
Latencies == {500, 4000, 10000, 30000, 100000}

NewArgs ==
    { a \in [mmap : BOOLEAN, tsched : BOOLEAN, hrtimer : BOOLEAN, b : BOOLEAN, d : BOOLEAN,
             wm_arg : WatermarkArgs, req_ss : SampleSpecs, ss : SampleSpecs,
             nfrags : NFrags, period_frames : PeriodFrames,
             min_latency : InitMinLatencies] :
        \* the driver keeps the sample format and tweaks at most the rate
        /\ a.req_ss.frame_size = a.ss.frame_size
        /\ a.req_ss.rate \in {a.ss.rate, 1000}
        \* pa_source_set_latency_range: min_latency <= max_latency
        /\ a.min_latency <= pa_bytes_to_usec(a.period_frames * a.ss.frame_size * a.nfrags, a.ss) }

\* the latencies requested of the running engine
CaptureLatencies == {NoLatency, 10000}

RequestableLatencies(w) ==
    {NoLatency} \cup { l \in Latencies : w.min_latency <= l /\ l <= w.max_latency }

(***************************************************************************)
(* The geometry on its own: construction, then latency requests, overruns  *)
(* and suspend/resume in any order.                                        *)
(***************************************************************************)
\* the rest of the program stands still while the geometry is exercised
GeomRest == << th, inq, mainth, posted, unload, hw, faults, snap >>

GeomInit ==
    /\ \E a \in NewArgs : u = pa_alsa_source_new(a)
    /\ th = [pc |-> "none"]
    /\ inq = [code |-> "NONE"]
    /\ mainth = [pc |-> "none"]
    /\ posted = 0
    /\ unload = 0
    /\ hw = 0
    /\ faults = 0
    /\ snap = [set |-> FALSE]

\* A consumer changes the requested latency
GeomLatency ==
    /\ \E l \in RequestableLatencies(u), sw_ok \in BOOLEAN :
        u' = source_update_requested_latency_cb([u EXCEPT !.requested_latency = l], sw_ok)
    /\ UNCHANGED GeomRest

\* A read path looks at what avail reported
GeomCheckLeft ==
    /\ u.pcm_handle
    /\ \E n \in 0 .. (u.hwbuf_size \div u.frame_size) :
        u' = check_left_to_record(u, n * u.frame_size)[1]
    /\ UNCHANGED GeomRest

GeomSuspend ==
    /\ u.pcm_handle
    /\ u' = suspend(u)
    /\ UNCHANGED GeomRest

GeomUnsuspend ==
    /\ ~u.pcm_handle
    /\ \E d \in ResumeAnswers : u' = unsuspend(u, d)[1]
    /\ UNCHANGED GeomRest

GeomNext ==
    \/ GeomLatency
    \/ GeomCheckLeft
    \/ GeomSuspend
    \/ GeomUnsuspend

SpecGeometry == GeomInit /\ [][GeomNext]_vars

(***************************************************************************)
(* Messages to the capture thread.                                         *)
(***************************************************************************)
\* PA_SOURCE_IS_OPENED
Opened(s) ==
    s \in {"IDLE", "RUNNING"}

\* the value standing for a failed pa_assert (the process aborts)
AssertFailed == 0 - 2

\* reply is what a handler stores through the message's data pointer; now2
\* remembers what the smoother answered to it
NoMsg ==
    [code |-> "NONE", data |-> "", latency |-> NoLatency, done |-> FALSE, ret |-> 0,
     reply |-> 0, now2 |-> 0]

Msg(code, data, latency) ==
    [code |-> code, data |-> data, latency |-> latency, done |-> FALSE, ret |-> 0,
     reply |-> 0, now2 |-> 0]

\* a source_get_latency that hands out the difference as it is
source_get_latency_unclamped(w, now2) ==
    now2 - pa_bytes_to_usec(w.read_count, sample_spec(w))

\* now2: what pa_smoother_get answers for the current time
source_get_latency(w, now2) ==
    LET delay == now2 - pa_bytes_to_usec(w.read_count, sample_spec(w))
    IN  IF delay >= 0 THEN delay ELSE 0

\* source_process_msg, lines 799-808: what GET_LATENCY stores through data
get_latency_reply(w, d) ==
    IF w.pcm_handle THEN source_get_latency(w, d.now2) ELSE 0

\* pa_source_process_msg, the source core's dispatcher: a state message sets
\* the thread-side state; a change of the requested latency reaches the
\* engine through its update_requested_latency callback
pa_source_process_msg(w, msg, d) ==
    LET latency(w1) == << source_update_requested_latency_cb(w1, d.sw_ok), 0 >>
    IN  IF msg.code = "SET_STATE"
        THEN << [w EXCEPT !.state = msg.data], 0 >>
        ELSE IF msg.code = "SET_REQUESTED_LATENCY"
        THEN With([w EXCEPT !.requested_latency = msg.latency], latency)
        ELSE << w, 0 >>

\* a handler that lets the source core take the new state after a failed step
source_process_msg_forward_failed(w, msg, d) ==
    LET \* the message is handed on whatever the step before returned
        forward(r) == IF r[2] < 0 THEN << pa_source_process_msg(r[1], msg, d)[1], 0 - 1 >>
                      ELSE pa_source_process_msg(r[1], msg, d)
    IN  IF msg.code = "GET_LATENCY"
        THEN << w, 0 >>
        ELSE IF msg.code = "SET_STATE" /\ msg.data = "SUSPENDED"
        THEN IF ~Opened(w.state)
             THEN << w, AssertFailed >>
             ELSE With(<< suspend(w), 0 >>, forward)
        ELSE IF msg.code = "SET_STATE" /\ msg.data \in {"IDLE", "RUNNING"}
        THEN IF w.state = "INIT"
             THEN With(build_pollfd(w, d.pollfd_ok), forward)
             ELSE IF w.state = "SUSPENDED"
             THEN With(unsuspend(w, d), forward)
             ELSE pa_source_process_msg(w, msg, d)
        ELSE pa_source_process_msg(w, msg, d)

source_process_msg(w, msg, d) ==
    LET \* lines 846-848: hand the message on unless the step before failed
        forward(r) == IF r[2] < 0 THEN << r[1], 0 - 1 >>
                      ELSE pa_source_process_msg(r[1], msg, d)
    IN  IF msg.code = "GET_LATENCY"
        THEN << w, 0 >>
        ELSE IF msg.code = "SET_STATE" /\ msg.data = "SUSPENDED"
        THEN IF ~Opened(w.state)
             THEN << w, AssertFailed >>
             ELSE With(<< suspend(w), 0 >>, forward)
        ELSE IF msg.code = "SET_STATE" /\ msg.data \in {"IDLE", "RUNNING"}
        THEN IF w.state = "INIT"
             THEN With(build_pollfd(w, d.pollfd_ok), forward)
             ELSE IF w.state = "SUSPENDED"
             THEN With(unsuspend(w, d), forward)
             ELSE pa_source_process_msg(w, msg, d)
        ELSE pa_source_process_msg(w, msg, d)

\* what pa_smoother_get may answer, in usec of soundcard time
SmootherTimes ==
    {0, 10000, 20000}

\* the driver answers a message handler may consult: all of them on a
\* resume, pa_alsa_build_pollfd on the first start, pa_alsa_set_sw_params on
\* a latency change
AnswersFor(w, msg) ==
    IF msg.code = "SET_STATE" /\ msg.data \in {"IDLE", "RUNNING"} /\ w.state = "SUSPENDED"
    THEN ResumeAnswers
    ELSE IF msg.code = "SET_STATE" /\ msg.data \in {"IDLE", "RUNNING"} /\ w.state = "INIT"
    THEN {AllFine, [AllFine EXCEPT !.pollfd_ok = FALSE]}
    ELSE IF msg.code = "SET_REQUESTED_LATENCY" /\ w.pcm_handle
    THEN {AllFine, [AllFine EXCEPT !.sw_ok = FALSE]}
    ELSE IF msg.code = "GET_LATENCY" /\ w.pcm_handle
    THEN { [AllFine EXCEPT !.now2 = x] : x \in SmootherTimes }
    ELSE {AllFine}

(***************************************************************************)
(* The capture thread.                                                     *)
(***************************************************************************)
\* bounds of the environment
MaxFrames == 3
MaxFaults == 1
\* the frames the device delivers where termination is checked
FairFrames == 1
\* pa_mempool_block_size_max / frame_size
MempoolBlockFrames == 2

\* what avail may report, in frames
AvailChoices(w, left) ==
    { n \in {0, 1, 3, 5} : n <= left /\ n * w.frame_size <= w.hwbuf_size }

\* how many of the frames asked for mmap_begin grants, or readi reads
Grants(frames) ==
    {1, frames}

\* what pa_smoother_translate may answer for a soundcard-time delay
Translate(usec) ==
    {usec, usec \div 2, usec * 2}

TimerOff ==
    [on |-> FALSE, usec |-> 0]

\* no region is mapped.  Otherwise: the offset and the frames mmap_begin
\* granted, the length of the fixed chunk in bytes, and whether the engine
\* still holds its reference to it
NoChunk ==
    [offset |-> 0, granted |-> 0, length |-> 0, held |-> FALSE]

\* where the driver grants the next region: its application pointer, which
\* advances by what was committed
appl_offset(w) ==
    (w.read_count \div w.frame_size) % (w.hwbuf_size \div w.frame_size)

\* the thread outside a read path: the path's locals do not exist.
\* restarted tells that the last driver call of the path was the
\* snd_pcm_start of a successful try_recover
ThreadIdle(pc, revents, timer) ==
    [pc |-> pc, revents |-> revents, timer |-> timer,
     polled |-> FALSE, first |-> FALSE, j |-> 0, n_bytes |-> 0, left_to_record |-> 0,
     work_done |-> FALSE, max_sleep_usec |-> 0, process_usec |-> 0, frames |-> 0,
     sleep_usec |-> 0, ret |-> 0, ran |-> FALSE, fed |-> 0, failed |-> FALSE,
     restarted |-> FALSE,
     \* the last wake.  Before the revents are fetched: "fired" if the
     \* device's descriptors reported input, else "quiet".  After it, in
     \* an opened state: "plain" (revents fetched, neither recovery nor
     \* start), "recovered" (recovery, then start), "recover_failed",
     \* "query_failed"; in any other state and before the first wake: "none"
     wake |-> "none",
     \* the fixed chunk of the mapped region
     chunk |-> NoChunk]

Alive ==
    mainth.pc # "aborted"

\* a loop that takes any bit of revents for input
ThreadLoop_polled_on_any ==
    /\ Alive
    /\ th.pc = "loop"
    /\ IF Opened(u.state)
       THEN th' = [ThreadIdle("avail", {}, th.timer) EXCEPT
                      !.polled = th.revents # {},
                      !.first = TRUE,
                      !.ran = TRUE,
                      !.max_sleep_usec = IF u.use_tsched THEN hw_sleep_time(u).sleep_usec ELSE 0,
                      !.process_usec = IF u.use_tsched THEN hw_sleep_time(u).process_usec ELSE 0]
       ELSE th' = ThreadIdle("poll", {}, IF u.use_tsched THEN TimerOff ELSE th.timer)
    /\ UNCHANGED << u, inq, mainth, posted, unload, hw, faults, snap >>

\* thread_func, lines 1154-1161 and 1188-1191: enter the read path, or
\* disable the timer when the source is not opened
ThreadLoop ==
    /\ Alive
    /\ th.pc = "loop"
    /\ IF Opened(u.state)
       THEN th' = [ThreadIdle("avail", {}, th.timer) EXCEPT
                      !.polled = "POLLIN" \in th.revents,
                      !.first = TRUE,
                      !.ran = TRUE,
                      !.max_sleep_usec = IF u.use_tsched THEN hw_sleep_time(u).sleep_usec ELSE 0,
                      !.process_usec = IF u.use_tsched THEN hw_sleep_time(u).process_usec ELSE 0]
       ELSE th' = ThreadIdle("poll", {}, IF u.use_tsched THEN TimerOff ELSE th.timer)
    /\ UNCHANGED << u, inq, mainth, posted, unload, hw, faults, snap >>

\* try_recover: 0 when snd_pcm_recover succeeds (the stream is started
\* again), -1 when it fails
try_recover(rec_ok) ==
    IF rec_ok THEN 0 ELSE 0 - 1

\* a read path that never finds a wake too early
TooEarly_never(w, l, left) ==
    FALSE

\* the "too early" test of both read paths
TooEarly(w, l, left) ==
    /\ w.use_tsched
    /\ ~l.polled
    /\ ULess(l.process_usec + l.max_sleep_usec \div 2,
             pa_bytes_to_usec(left, sample_spec(w)))

\* the end of a read path: sleep_usec and the return value
PathReturn(w, l, left) ==
    [l EXCEPT !.pc = "smooth",
              !.left_to_record = left,
              !.first = FALSE,
              !.restarted = FALSE,
              !.sleep_usec = pa_bytes_to_usec(left, sample_spec(w)) - l.process_usec,
              !.ret = IF l.work_done THEN 1 ELSE 0]

\* a spurious-wakeup warning outside PA_ONCE
warn_spurious_wakeup_every_time(w) ==
    [w EXCEPT !.once = @ \cup {IF w.use_mmap THEN "mmap_read" ELSE "unix_read"},
              !.warnings = @ + 1]

\* lines 375-382 and 508-515: PA_ONCE_BEGIN ... pa_log ... PA_ONCE_END
warn_spurious_wakeup(w) ==
    LET site == IF w.use_mmap THEN "mmap_read" ELSE "unix_read"
    IN  IF site \in w.once
        THEN w
        ELSE [w EXCEPT !.once = @ \cup {site}, !.warnings = @ + 1]

\* a read round after avail has reported n frames
AfterAvail(w, l, n) ==
    LET n_bytes == n * w.frame_size
        cl == check_left_to_record(w, n_bytes)
        left == cl[2]
    IN  [u |-> IF ~TooEarly(w, l, left) /\ n_bytes <= 0 /\ l.polled
               THEN warn_spurious_wakeup(cl[1])
               ELSE cl[1],
         th |-> IF TooEarly(w, l, left) THEN PathReturn(w, l, left)
                ELSE IF n_bytes <= 0 THEN PathReturn(w, l, left)
                ELSE IF l.j + 1 > 10 THEN PathReturn(w, [l EXCEPT !.j = @ + 1], left)
                ELSE [l EXCEPT !.pc = IF w.use_mmap THEN "begin" ELSE "readi",
                               !.j = @ + 1,
                               !.first = FALSE,
                               !.restarted = FALSE,
                               !.polled = FALSE,
                               !.n_bytes = n_bytes,
                               !.left_to_record = left]]

\* a read path that gives up on every failed driver call, recovered or not
PathError_always_fatal(l, retry_pc, rec_ok) ==
    [l EXCEPT !.pc = "fail", !.ret = 0 - 1, !.frames = 0, !.chunk = NoChunk,
              !.restarted = (try_recover(rec_ok) = 0)]

\* a failed driver call inside a read path: retry the step after a
\* successful recovery, leave the path with -1 otherwise
PathError(l, retry_pc, rec_ok) ==
    IF try_recover(rec_ok) = 0
    THEN [l EXCEPT !.pc = retry_pc, !.frames = 0, !.chunk = NoChunk, !.restarted = TRUE]
    ELSE [l EXCEPT !.pc = "fail", !.ret = 0 - 1, !.frames = 0, !.chunk = NoChunk,
                   !.restarted = FALSE]

ThreadAvail ==
    /\ Alive
    /\ th.pc = "avail"
    /\ \/ \E n \in AvailChoices(u, hw) :
            /\ u' = AfterAvail(u, th, n).u
            /\ th' = AfterAvail(u, th, n).th
            /\ UNCHANGED faults
       \/ /\ faults > 0
          /\ faults' = faults - 1
          /\ \E rec_ok \in BOOLEAN : th' = PathError(th, "avail", rec_ok)
          /\ UNCHANGED u
    /\ UNCHANGED << inq, mainth, posted, unload, hw, snap >>

\* a mmap_read that commits the region while it still holds the chunk
ThreadMmapBegin_keeps_chunk ==
    /\ Alive
    /\ th.pc = "begin"
    /\ \/ \E g \in Grants(th.n_bytes \div u.frame_size) :
            LET frames == IF g > MempoolBlockFrames THEN MempoolBlockFrames ELSE g
            IN  /\ th' = [th EXCEPT !.pc = "commit", !.frames = frames,
                                     !.restarted = FALSE,
                                     \* pa_memblock_new_fixed, pa_source_post,
                                     \* pa_memblock_unref_fixed
                                     !.chunk = [offset |-> appl_offset(u), granted |-> g,
                                                length |-> frames * u.frame_size,
                                                held |-> TRUE]]
                /\ posted' = posted + frames * u.frame_size
                /\ UNCHANGED faults
       \/ /\ faults > 0
          /\ faults' = faults - 1
          /\ \E rec_ok \in BOOLEAN : th' = PathError(th, "begin", rec_ok)
          /\ UNCHANGED posted
    /\ UNCHANGED << u, inq, mainth, unload, hw, snap >>

\* mmap_read, lines 412-443: map a region, post it as a fixed chunk
ThreadMmapBegin ==
    /\ Alive
    /\ th.pc = "begin"
    /\ \/ \E g \in Grants(th.n_bytes \div u.frame_size) :
            LET frames == IF g > MempoolBlockFrames THEN MempoolBlockFrames ELSE g
            IN  /\ th' = [th EXCEPT !.pc = "commit", !.frames = frames,
                                     !.restarted = FALSE,
                                     \* pa_memblock_new_fixed, pa_source_post,
                                     \* pa_memblock_unref_fixed
                                     !.chunk = [offset |-> appl_offset(u), granted |-> g,
                                                length |-> frames * u.frame_size,
                                                held |-> FALSE]]
                /\ posted' = posted + frames * u.frame_size
                /\ UNCHANGED faults
       \/ /\ faults > 0
          /\ faults' = faults - 1
          /\ \E rec_ok \in BOOLEAN : th' = PathError(th, "begin", rec_ok)
          /\ UNCHANGED posted
    /\ UNCHANGED << u, inq, mainth, unload, hw, snap >>

\* the bookkeeping of both paths after frames were taken from the device
AfterRead(w, l, frames) ==
    [u |-> [w EXCEPT !.read_count = @ + frames * w.frame_size],
     th |-> IF frames * w.frame_size >= l.n_bytes
            THEN [l EXCEPT !.pc = "avail", !.work_done = TRUE, !.frames = 0, !.n_bytes = 0,
                           !.restarted = FALSE, !.chunk = NoChunk]
            ELSE [l EXCEPT !.work_done = TRUE, !.frames = 0, !.restarted = FALSE,
                           !.chunk = NoChunk,
                           !.pc = IF w.use_mmap THEN "begin" ELSE "readi",
                           !.n_bytes = @ - frames * w.frame_size]]

\* mmap_read, lines 445-464: commit the region just posted
ThreadMmapCommit ==
    /\ Alive
    /\ th.pc = "commit"
    /\ \/ /\ u' = AfterRead(u, th, th.frames).u
          /\ th' = AfterRead(u, th, th.frames).th
          /\ hw' = hw - th.frames
          /\ UNCHANGED faults
       \/ /\ faults > 0
          /\ faults' = faults - 1
          /\ \E rec_ok \in BOOLEAN : th' = PathError(th, "begin", rec_ok)
          /\ UNCHANGED << u, hw >>
    /\ UNCHANGED << inq, mainth, posted, unload, snap >>

\* unix_read, lines 530-574: read into a pool chunk and post it
ThreadReadi ==
    /\ Alive
    /\ th.pc = "readi"
    /\ \/ LET want == IF MempoolBlockFrames > th.n_bytes \div u.frame_size
                      THEN th.n_bytes \div u.frame_size ELSE MempoolBlockFrames
          IN  \E frames \in Grants(want) :
                /\ posted' = posted + frames * u.frame_size
                /\ u' = AfterRead(u, th, frames).u
                /\ th' = AfterRead(u, th, frames).th
                /\ hw' = hw - frames
                /\ UNCHANGED faults
       \/ /\ faults > 0
          /\ faults' = faults - 1
          /\ \E rec_ok \in BOOLEAN : th' = PathError(th, "readi", rec_ok)
          /\ UNCHANGED << u, hw, posted >>
    /\ UNCHANGED << inq, mainth, unload, snap >>

\* an update_smoother that feeds its sample twice
update_smoother_twice(delay_ok) ==
    IF delay_ok THEN 2 ELSE 0

\* update_smoother: the number of samples it feeds (none when the delay
\* query fails)
update_smoother(delay_ok) ==
    IF delay_ok THEN 1 ELSE 0

\* as ThreadSmooth, but trusting the translated delay
ThreadSmooth_trusting ==
    /\ Alive
    /\ th.pc = "smooth"
    /\ \E delay_ok \in {TRUE} \cup (IF th.ret > 0 /\ faults > 0 THEN {FALSE} ELSE {}),
          cusec \in (IF u.use_tsched THEN Translate(th.sleep_usec) ELSE {0}) :
        /\ th' = [ThreadIdle("poll", th.revents,
                             IF u.use_tsched
                             THEN [on |-> TRUE, usec |-> cusec]
                             ELSE th.timer) EXCEPT
                     !.ret = th.ret,
                     !.ran = TRUE,
                     !.sleep_usec = th.sleep_usec,
                     !.fed = IF th.ret > 0 THEN update_smoother(delay_ok) ELSE 0]
        /\ faults' = IF delay_ok THEN faults ELSE faults - 1
    /\ UNCHANGED << u, inq, mainth, posted, unload, hw, snap >>

\* thread_func, lines 1168-1187: feed the smoother, arm the timer
ThreadSmooth ==
    /\ Alive
    /\ th.pc = "smooth"
    /\ \E delay_ok \in {TRUE} \cup (IF th.ret > 0 /\ faults > 0 THEN {FALSE} ELSE {}),
          cusec \in (IF u.use_tsched THEN Translate(th.sleep_usec) ELSE {0}) :
        /\ th' = [ThreadIdle("poll", th.revents,
                             IF u.use_tsched
                             THEN [on |-> TRUE, usec |-> PA_MIN(th.sleep_usec, cusec)]
                             ELSE th.timer) EXCEPT
                     !.ret = th.ret,
                     !.ran = TRUE,
                     !.sleep_usec = th.sleep_usec,
                     !.fed = IF th.ret > 0 THEN update_smoother(delay_ok) ELSE 0]
        /\ faults' = IF delay_ok THEN faults ELSE faults - 1
    /\ UNCHANGED << u, inq, mainth, posted, unload, hw, snap >>

\* the effect of dispatching the message in flight on the capture thread
Dispatch(d) ==
    LET r == source_process_msg(u, inq, d)
    IN  /\ u' = r[1]
        /\ inq' = IF inq.code = "GET_LATENCY"
                   THEN [inq EXCEPT !.done = TRUE, !.ret = r[2],
                                    !.reply = get_latency_reply(u, d), !.now2 = d.now2]
                   ELSE [inq EXCEPT !.done = TRUE, !.ret = r[2]]
        /\ snap' = IF inq.code = "SET_STATE" /\ inq.data = "SUSPENDED" /\ r[2] = 0
                   THEN [set |-> TRUE, config |-> Config(u), read_count |-> u.read_count]
                   ELSE snap
        /\ mainth' = IF r[2] = AssertFailed THEN [mainth EXCEPT !.pc = "aborted"] ELSE mainth

Pending ==
    inq.code # "NONE" /\ ~inq.done

\* whether the poll saw input on the device's descriptors: it polls them
\* only if the poll-fd item exists when it starts
DescriptorsFired(w) ==
    IF w.alsa_rtpoll_item THEN {"fired", "quiet"} ELSE {"quiet"}

\* what snd_pcm_poll_descriptors_revents may answer: POLLIN only if the
\* descriptors reported input, an error bit at any time
DriverRevents(wake) ==
    { r \in SUBSET {"POLLIN", "POLLERR"} : "POLLIN" \in r => wake = "fired" }

\* a poll core that reports SHUTDOWN as a failure
ThreadPollMsg_fatal ==
    /\ Alive
    /\ th.pc = "poll"
    /\ Pending
    /\ IF inq.code = "SHUTDOWN"
       THEN /\ th' = [th EXCEPT !.pc = "fail"]
            /\ UNCHANGED << u, inq, snap, mainth >>
       ELSE /\ \E d \in AnswersFor(u, inq) : Dispatch(d)
            /\ \E f \in DescriptorsFired(u) :
                  th' = [ThreadIdle("revents", {}, TimerOff) EXCEPT !.wake = f]
    /\ UNCHANGED << posted, unload, hw, faults >>

\* pa_rtpoll_run finds a message: SHUTDOWN makes it return 0 and the thread
\* leaves the loop, any other message is dispatched and it returns > 0.  A
\* relative timer is one-shot: it is off once pa_rtpoll_run has returned, and
\* the locals of the loop body are dead by then
ThreadPollMsg ==
    /\ Alive
    /\ th.pc = "poll"
    /\ Pending
    /\ IF inq.code = "SHUTDOWN"
       THEN /\ inq' = [inq EXCEPT !.done = TRUE]
            /\ th' = [th EXCEPT !.pc = "done"]
            /\ UNCHANGED << u, snap, mainth >>
       ELSE /\ \E d \in AnswersFor(u, inq) : Dispatch(d)
            /\ \E f \in DescriptorsFired(u) :
                  th' = [ThreadIdle("revents", {}, TimerOff) EXCEPT !.wake = f]
    /\ UNCHANGED << posted, unload, hw, faults >>

\* pa_rtpoll_run returns > 0: the timer expired or a descriptor fired
ThreadPollWake ==
    /\ Alive
    /\ th.pc = "poll"
    /\ ~Pending
    /\ \E f \in DescriptorsFired(u) :
          th' = [ThreadIdle("revents", {}, TimerOff) EXCEPT !.wake = f]
    /\ UNCHANGED << u, inq, mainth, posted, unload, hw, faults, snap >>

\* pa_rtpoll_run returns < 0
ThreadPollError ==
    /\ Alive
    /\ th.pc = "poll"
    /\ ~Pending
    /\ faults > 0
    /\ faults' = faults - 1
    /\ th' = [th EXCEPT !.pc = "fail"]
    /\ UNCHANGED << u, inq, mainth, posted, unload, hw, snap >>

\* a wake that recovers on any bit of revents, POLLIN included
ThreadRevents_any_bit ==
    /\ Alive
    /\ th.pc = "revents"
    /\ IF Opened(u.state)
       THEN \/ \E r \in DriverRevents(th.wake) :
                 IF r # {}
                 THEN \/ /\ th' = [th EXCEPT !.pc = "loop", !.revents = r,
                                              !.wake = "recovered"]
                         /\ UNCHANGED faults
                      \/ /\ faults > 0
                         /\ faults' = faults - 1
                         /\ th' = [th EXCEPT !.pc = "fail", !.revents = r,
                                              !.wake = "recover_failed"]
                 ELSE /\ th' = [th EXCEPT !.pc = "loop", !.revents = r,
                                           !.wake = "plain"]
                      /\ UNCHANGED faults
            \/ /\ faults > 0
               /\ faults' = faults - 1
               /\ th' = [th EXCEPT !.pc = "fail", !.wake = "query_failed"]
       ELSE /\ th' = [th EXCEPT !.pc = "loop", !.revents = {}, !.wake = "none"]
            /\ UNCHANGED faults
    \* what was noted at the last suspend is of no use once the engine runs
    /\ snap' = IF Opened(u.state) THEN [set |-> FALSE] ELSE snap
    /\ UNCHANGED << u, inq, mainth, posted, unload, hw >>

\* thread_func, lines 1200-1222: the driver's revents, poll recovery
ThreadRevents ==
    /\ Alive
    /\ th.pc = "revents"
    /\ IF Opened(u.state)
       THEN \/ \E r \in DriverRevents(th.wake) :
                 IF r \ {"POLLIN"} # {}
                 THEN \/ /\ th' = [th EXCEPT !.pc = "loop", !.revents = r,
                                              !.wake = "recovered"]
                         /\ UNCHANGED faults
                      \/ /\ faults > 0
                         /\ faults' = faults - 1
                         /\ th' = [th EXCEPT !.pc = "fail", !.revents = r,
                                              !.wake = "recover_failed"]
                 ELSE /\ th' = [th EXCEPT !.pc = "loop", !.revents = r,
                                           !.wake = "plain"]
                      /\ UNCHANGED faults
            \/ /\ faults > 0
               /\ faults' = faults - 1
               /\ th' = [th EXCEPT !.pc = "fail", !.wake = "query_failed"]
       ELSE /\ th' = [th EXCEPT !.pc = "loop", !.revents = {}, !.wake = "none"]
            /\ UNCHANGED faults
    \* what was noted at the last suspend is of no use once the engine runs
    /\ snap' = IF Opened(u.state) THEN [set |-> FALSE] ELSE snap
    /\ UNCHANGED << u, inq, mainth, posted, unload, hw >>

\* a fatal exit that posts nothing
ThreadFail_silent ==
    /\ Alive
    /\ th.pc = "fail"
    \* the loop's revents and timer are not looked at again
    /\ th' = [ThreadIdle("drain", {}, TimerOff) EXCEPT !.failed = TRUE, !.ret = th.ret]
    /\ UNCHANGED << u, inq, mainth, posted, unload, hw, faults, snap >>

\* thread_func, line 1228: the fatal exit posts the unload request
ThreadFail ==
    /\ Alive
    /\ th.pc = "fail"
    /\ unload' = unload + 1
    \* the loop's revents and timer are not looked at again
    /\ th' = [ThreadIdle("drain", {}, TimerOff) EXCEPT !.failed = TRUE, !.ret = th.ret]
    /\ UNCHANGED << u, inq, mainth, posted, hw, faults, snap >>

\* a drain that answers SHUTDOWN and nothing else
ThreadDrain_shutdown_only ==
    /\ Alive
    /\ th.pc = "drain"
    /\ Pending
    /\ inq.code = "SHUTDOWN"
    /\ inq' = [inq EXCEPT !.done = TRUE]
    /\ th' = [th EXCEPT !.pc = "done"]
    /\ UNCHANGED << u, snap, mainth, posted, unload, hw, faults >>

\* thread_func, line 1229: pa_asyncmsgq_wait_for dispatches every message
\* up to and including SHUTDOWN
ThreadDrain ==
    /\ Alive
    /\ th.pc = "drain"
    /\ Pending
    /\ IF inq.code = "SHUTDOWN"
       THEN /\ inq' = [inq EXCEPT !.done = TRUE]
            /\ th' = [th EXCEPT !.pc = "done"]
            /\ UNCHANGED << u, snap, mainth >>
       ELSE /\ \E d \in AnswersFor(u, inq) : Dispatch(d)
            /\ UNCHANGED th
    /\ UNCHANGED << posted, unload, hw, faults >>

(***************************************************************************)
(* The main thread: the source core's state requests, the consumers'       *)
(* latency requests, and userdata_free.                                    *)
(***************************************************************************)
\* the capture thread looks at its queue only inside pa_rtpoll_run and
\* pa_asyncmsgq_wait_for (and never again once it has returned): a message
\* sent while it is elsewhere is found at its next poll, so a send is an
\* event of these points
Send(msg, after, want) ==
    /\ th.pc \in {"poll", "drain", "done"}
    /\ inq' = msg
    /\ mainth' = [mainth EXCEPT !.pc = "wait", !.after = after, !.want = want]

\* pa_source_put, called at line 1590
MainPut ==
    /\ mainth.pc = "new"
    /\ Send(Msg("SET_STATE", "IDLE", NoLatency), "put", "IDLE")
    /\ UNCHANGED << u, th, posted, unload, hw, faults, snap >>

\* a suspend, a resume, or a change between IDLE and RUNNING
MainSetState ==
    /\ mainth.pc = "idle"
    /\ \E s \in {"IDLE", "RUNNING", "SUSPENDED"} \ {mainth.state} :
        Send(Msg("SET_STATE", s, NoLatency), "set", s)
    /\ UNCHANGED << u, th, posted, unload, hw, faults, snap >>

\* a consumer asks for another latency (sources with dynamic latency only)
MainSetLatency ==
    /\ mainth.pc = "idle"
    /\ u.use_tsched
    /\ \E l \in CaptureLatencies \ {u.requested_latency} :
        Send(Msg("SET_REQUESTED_LATENCY", "", l), "set", mainth.state)
    /\ UNCHANGED << u, th, posted, unload, hw, faults, snap >>

\* pa_source_get_latency: the core asks the capture thread for the latency
MainGetLatency ==
    /\ mainth.pc = "idle"
    /\ Send(Msg("GET_LATENCY", "", NoLatency), "set", mainth.state)
    /\ UNCHANGED << u, th, posted, unload, hw, faults, snap >>

\* userdata_free, lines 1604-1605: on an unload request of the capture
\* thread or of the user, unlink the source
MainUnload ==
    /\ mainth.pc = "idle"
    /\ Send(Msg("SET_STATE", "UNLINKED", NoLatency), "unlink", "UNLINKED")
    /\ UNCHANGED << u, th, posted, unload, hw, faults, snap >>

\* a userdata_free that releases the engine without SHUTDOWN and join
MainReply_free_after_unlink ==
    /\ mainth.pc = "wait"
    /\ inq.done
    /\ IF mainth.after = "put"
       THEN /\ inq' = NoMsg
            /\ mainth' = IF inq.ret = 0
                         THEN [mainth EXCEPT !.pc = "idle", !.state = "IDLE"]
                         ELSE [mainth EXCEPT !.pc = "aborted"]
            /\ UNCHANGED << u, th, posted, unload, hw, faults, snap >>
       ELSE IF mainth.after = "set"
       THEN /\ inq' = NoMsg
            /\ mainth' = [mainth EXCEPT !.pc = "idle",
                                        !.state = IF inq.ret = 0 THEN mainth.want ELSE @]
            /\ UNCHANGED << u, th, posted, unload, hw, faults, snap >>
       ELSE IF mainth.after = "unlink"
       \* userdata_free, line 1608
       THEN /\ inq' = NoMsg
            /\ mainth' = [mainth EXCEPT !.pc = "freed", !.state = "UNLINKED"]
            /\ u' = [u EXCEPT !.alsa_rtpoll_item = FALSE, !.pcm_handle = FALSE]
            /\ UNCHANGED << th, posted, unload, hw, faults, snap >>
       ELSE /\ inq' = NoMsg
            /\ mainth' = [mainth EXCEPT !.pc = "join"]
            /\ UNCHANGED << u, th, posted, unload, hw, faults, snap >>

\* the synchronous send returns
MainReply ==
    /\ mainth.pc = "wait"
    /\ inq.done
    /\ IF mainth.after = "put"
       THEN /\ inq' = NoMsg
            /\ mainth' = IF inq.ret = 0
                         THEN [mainth EXCEPT !.pc = "idle", !.state = "IDLE"]
                         ELSE [mainth EXCEPT !.pc = "aborted"]
       ELSE IF mainth.after = "set"
       THEN /\ inq' = NoMsg
            /\ mainth' = [mainth EXCEPT !.pc = "idle",
                                        !.state = IF inq.ret = 0 THEN mainth.want ELSE @]
       ELSE IF mainth.after = "unlink"
       \* userdata_free, line 1608
       THEN /\ inq' = Msg("SHUTDOWN", "", NoLatency)
            /\ mainth' = [mainth EXCEPT !.pc = "wait", !.after = "shutdown",
                                        !.state = "UNLINKED"]
       ELSE /\ inq' = NoMsg
            /\ mainth' = [mainth EXCEPT !.pc = "join"]
    /\ UNCHANGED << u, th, posted, unload, hw, faults, snap >>

\* userdata_free, lines 1609-1641: join the thread, then release everything
MainJoin ==
    /\ mainth.pc = "join"
    /\ th.pc = "done"
    /\ mainth' = [mainth EXCEPT !.pc = "freed"]
    /\ u' = [u EXCEPT !.alsa_rtpoll_item = FALSE, !.pcm_handle = FALSE]
    /\ UNCHANGED << th, inq, posted, unload, hw, faults, snap >>

(***************************************************************************)
(* The engine: construction, then both threads.                            *)
(***************************************************************************)
CaptureSpec ==
    [rate |-> 200, frame_size |-> 2]

CaptureArgs ==
    [mmap : BOOLEAN, tsched : BOOLEAN, hrtimer : BOOLEAN, b : BOOLEAN, d : BOOLEAN,
     wm_arg : {0}, req_ss : {CaptureSpec}, ss : {CaptureSpec},
     nfrags : {2}, period_frames : {3}, min_latency : {4000}]

CaptureInit ==
    /\ \E a \in CaptureArgs : u = pa_alsa_source_new(a)
    /\ th = ThreadIdle("loop", {}, TimerOff)
    /\ inq = NoMsg
    /\ mainth = [pc |-> "new", state |-> "INIT", after |-> "", want |-> ""]
    /\ posted = 0
    /\ unload = 0
    /\ hw = MaxFrames
    /\ faults = MaxFaults
    /\ snap = [set |-> FALSE]

ThreadNext ==
    \/ ThreadLoop
    \/ ThreadAvail
    \/ ThreadMmapBegin
    \/ ThreadMmapCommit
    \/ ThreadReadi
    \/ ThreadSmooth
    \/ ThreadPollMsg
    \/ ThreadPollWake
    \/ ThreadPollError
    \/ ThreadRevents
    \/ ThreadFail
    \/ ThreadDrain

MainNext ==
    \/ MainPut
    \/ MainSetState
    \/ MainSetLatency
    \/ MainGetLatency
    \/ MainUnload
    \/ MainReply
    \/ MainJoin

CaptureNext ==
    \/ ThreadNext
    \/ MainNext

SpecCapture == CaptureInit /\ [][CaptureNext]_vars

\* the engine with memory-mapped timer scheduling or with neither, and a
\* device that delivers FairFrames frames
FairInit ==
    /\ \E a \in { x \in CaptureArgs : x.mmap = x.tsched /\ x.hrtimer /\ x.b /\ x.d } :
          u = pa_alsa_source_new(a)
    /\ th = ThreadIdle("loop", {}, TimerOff)
    /\ inq = NoMsg
    /\ mainth = [pc |-> "new", state |-> "INIT", after |-> "", want |-> ""]
    /\ posted = 0
    /\ unload = 0
    /\ hw = FairFrames
    /\ faults = MaxFaults
    /\ snap = [set |-> FALSE]

\* both threads are scheduled: a draining thread that finds a message
\* dispatches it, and a blocking call of the main thread that can return does
SpecCaptureFair ==
    /\ FairInit
    /\ [][CaptureNext]_vars
    /\ WF_vars(ThreadDrain)
    /\ WF_vars(MainReply)
    /\ WF_vars(MainJoin)

(***************************************************************************)
(* Claims about the geometry.                                              *)
(***************************************************************************)
MaxUse == u.hwbuf_size - u.hwbuf_unused

MaxUse2 == pa_frame_align(MaxUse \div 2, sample_spec(u))

\* C1 as stated: with timer scheduling, after construction and after every
\* geometry update, min_wakeup <= tsched_watermark <= max_use - min_sleep
C1_WatermarkBand ==
    u.use_tsched =>
        /\ ~ULess(u.tsched_watermark, u.min_wakeup)
        /\ ~ULess(MaxUse - u.min_sleep, u.tsched_watermark)

\* C2 as stated: with timer scheduling, min_sleep and min_wakeup lie between
\* frame_size and the frame-aligned half of the usable buffer
C2_SleepWakeupBounds ==
    u.use_tsched =>
        /\ u.frame_size <= u.min_sleep /\ u.min_sleep <= MaxUse2
        /\ u.frame_size <= u.min_wakeup /\ u.min_wakeup <= MaxUse2

\* C1 as amended: the band holds whenever the usable buffer holds at least
\* two frames, and for a single-frame buffer whenever the 10 ms minimum
\* sleep is at least one frame long (a sample rate of 100 Hz or more)
C1_WatermarkBandAmended ==
    (/\ u.use_tsched
     /\ \/ MaxUse >= 2 * u.frame_size
        \/ pa_usec_to_bytes(TSCHED_MIN_SLEEP_USEC, sample_spec(u)) > 0)
    =>  /\ ~ULess(u.tsched_watermark, u.min_wakeup)
        /\ ~ULess(MaxUse - u.min_sleep, u.tsched_watermark)

\* a requested latency has shrunk the usable buffer to a single frame, and
\* the watermark was clamped into the band
C1_Witness ==
    /\ u.use_tsched
    /\ u.requested_latency # NoLatency
    /\ u.hwbuf_unused > 0
    /\ MaxUse = u.frame_size
    /\ pa_usec_to_bytes(TSCHED_MIN_SLEEP_USEC, sample_spec(u)) > 0
    /\ u.tsched_watermark = u.frame_size

\* C2 as amended: the bounds hold whenever the usable buffer holds at least
\* two frames
C2_SleepWakeupBoundsAmended ==
    (u.use_tsched /\ MaxUse >= 2 * u.frame_size) =>
        /\ u.frame_size <= u.min_sleep /\ u.min_sleep <= MaxUse2
        /\ u.frame_size <= u.min_wakeup /\ u.min_wakeup <= MaxUse2

\* a requested latency leaves a usable buffer of several frames, whose
\* aligned half caps min_sleep below its 10 ms default
C2_Witness ==
    /\ u.use_tsched
    /\ u.hwbuf_unused > 0
    /\ MaxUse >= 2 * u.frame_size
    /\ u.min_sleep = MaxUse2
    /\ u.min_sleep < pa_usec_to_bytes(TSCHED_MIN_SLEEP_USEC, sample_spec(u))
    /\ u.min_wakeup < u.min_sleep

(***************************************************************************)
(* Claims about the capture loop.                                          *)
(***************************************************************************)
\* C3: read_count never decreases, and whenever a read path has returned
\* normally (recovered driver failures included) it equals the number of
\* bytes posted downstream so far.
C3_ReadCountEqualsPosted ==
    [][ /\ u'.read_count >= u.read_count
        /\ (th'.pc = "smooth" => posted' = u'.read_count) ]_vars

\* C4: a read path entered with polled = false whose first avail query
\* leaves time(left_to_record) > process + sleep/2 posts nothing, leaves
\* read_count alone and returns 0.
C4_TooEarlyPostsNothing ==
    [][ ( /\ th.pc = "avail"
          /\ th.first
          /\ ~th.polled
          /\ th'.pc \in {"smooth", "begin", "readi"}
          /\ ULess(th.process_usec + th.max_sleep_usec \div 2,
                   pa_bytes_to_usec(th'.left_to_record, sample_spec(u))) )
        => ( /\ th'.pc = "smooth"
             /\ th'.ret = 0
             /\ posted' = posted
             /\ u'.read_count = u.read_count ) ]_vars

\* C4 (amended): the same, for an engine with timer scheduling enabled.
C4_TooEarlyPostsNothingTsched ==
    [][ ( /\ u.use_tsched
          /\ th.pc = "avail"
          /\ th.first
          /\ ~th.polled
          /\ th'.pc \in {"smooth", "begin", "readi"}
          /\ ULess(th.process_usec + th.max_sleep_usec \div 2,
                   pa_bytes_to_usec(th'.left_to_record, sample_spec(u))) )
        => ( /\ th'.pc = "smooth"
             /\ th'.ret = 0
             /\ posted' = posted
             /\ u'.read_count = u.read_count ) ]_vars

\* a timer-scheduled path has returned 0 although data was available: it
\* was not polled and its first avail query came too early
C4_Witness ==
    /\ th.pc = "smooth"
    /\ u.use_tsched
    /\ ~th.polled
    /\ th.j = 0
    /\ th.ret = 0
    /\ th.left_to_record < u.hwbuf_size - u.hwbuf_unused
    /\ ULess(th.process_usec + th.max_sleep_usec \div 2,
             pa_bytes_to_usec(th.left_to_record, sample_spec(u)))

\* C5: an iteration whose read path returns > 0 feeds the smoother exactly
\* one sample, one whose read path returns 0 feeds it none.
C5_SmootherFedOnce ==
    [][ th.pc = "smooth" /\ th'.pc = "poll"
        => th'.fed = (IF th.ret > 0 THEN 1 ELSE 0) ]_vars

\* C5 (amended): an iteration whose read path returns > 0 feeds the smoother
\* exactly one sample unless the driver's delay query fails, in which case
\* it feeds none; an iteration whose read path returns 0 feeds it none.
C5_SmootherFedOnceUnlessDelayFails ==
    [][ th.pc = "smooth" /\ th'.pc = "poll"
        => th'.fed = (IF th.ret > 0 /\ faults' = faults THEN 1 ELSE 0) ]_vars

\* an iteration that read data has fed its sample
C5_Witness ==
    /\ th.pc = "poll"
    /\ th.ret > 0
    /\ th.fed = 1

\* a resume is being answered in this step
ResumeAnswered ==
    /\ u.state = "SUSPENDED"
    /\ inq.code = "SET_STATE"
    /\ inq.data \in {"IDLE", "RUNNING"}
    /\ ~inq.done
    /\ inq'.done

\* C6: a successful resume after a suspend leaves nfragments,
\* fragment_size, the sample spec, use_mmap, use_tsched and read_count at
\* their values from before the suspend (and the driver has settled on these
\* values); while the source is suspended the driver handle is closed.
C6_ResumePreservesConfig ==
    [][ /\ (u'.state = "SUSPENDED" => ~u'.pcm_handle)
        /\ ( (u.state = "SUSPENDED" /\ Opened(u'.state))
             => ( /\ snap.set
                  /\ Config(u') = snap.config
                  /\ u'.negotiated = snap.config
                  /\ u'.read_count = snap.read_count
                  /\ u'.pcm_handle ) ) ]_vars

\* the engine runs again after a suspend that came after data was read
C6_Witness ==
    /\ snap.set
    /\ snap.read_count > 0
    /\ Opened(u.state)
    /\ u.pcm_handle
    /\ th.pc = "revents"

\* C7: a resume on which the driver settles on another access mode, sample
\* spec, fragment count or period size fails and leaves the handle closed,
\* and the engine posts an unload request before its thread ends.
C7_MismatchUnloads ==
    [][ /\ ( (ResumeAnswered /\ u'.negotiated # Config(u))
             => (inq'.ret < 0 /\ ~u'.pcm_handle) )
        /\ ( (th.pc # "done" /\ th'.pc = "done" /\ u.negotiated # Config(u))
             => unload > 0 ) ]_vars

\* C7 (amended): such a resume fails and leaves the handle closed; the
\* failure goes back to the sender of the state message, the source stays
\* SUSPENDED, no unload request is posted and the thread carries on.
C7_MismatchFailsResume ==
    [][ (ResumeAnswered /\ u'.negotiated # Config(u))
        => ( /\ inq'.ret < 0
             /\ ~u'.pcm_handle
             /\ u'.state = "SUSPENDED"
             /\ unload' = unload
             /\ th'.pc \in {"revents", "drain"} ) ]_vars

\* a resume has just failed on a mismatch, in a thread that runs normally
C7_Witness ==
    /\ u.state = "SUSPENDED"
    /\ inq.code = "SET_STATE"
    /\ inq.done
    /\ inq.ret < 0
    /\ u.negotiated # Config(u)
    /\ ~u.pcm_handle
    /\ unload = 0
    /\ th.pc = "revents"

\* C8: a thread that has met a fatal condition posts exactly one unload
\* request, posts no chunk afterwards, and ends only on a SHUTDOWN message.
C8_FatalExit ==
    [][ /\ (th.pc = "fail" /\ th' # th => th'.failed /\ unload' = unload + 1)
        /\ (th'.failed => unload' = 1)
        /\ (th.pc = "fail" \/ th.failed => posted' = posted /\ u'.read_count = u.read_count)
        /\ (th.failed /\ th.pc # "done" /\ th'.pc = "done"
               => inq.code = "SHUTDOWN" /\ ~inq.done /\ inq'.done) ]_vars

\* a thread that failed after posting data has ended
C8_Witness ==
    /\ th.pc = "done"
    /\ th.failed
    /\ unload = 1
    /\ posted > 0

\* C9: after a fatal error every message the main thread is waiting on is
\* answered, and once SHUTDOWN is sent the thread ends and the join returns.
C9_NoDeadlockAfterFatal ==
    /\ (th.failed /\ mainth.pc = "wait" /\ ~inq.done) ~> inq.done
    /\ (th.failed /\ inq.code = "SHUTDOWN") ~> (th.pc = "done" /\ mainth.pc = "freed")

\* the join has returned for a thread that failed and answered a state
\* message while draining
C9_Witness ==
    /\ th.failed
    /\ mainth.pc = "freed"
    /\ mainth.state = "UNLINKED"
    /\ u.state = "UNLINKED"

\* C10: a SHUTDOWN message found by the poll core of a thread that runs
\* normally ends the thread: no unload request, no chunk, no driver call
\* from then on.
C10_ShutdownExit ==
    [][ /\ ( (th.pc = "poll" /\ Pending /\ inq.code = "SHUTDOWN" /\ th' # th)
             => (th'.pc = "done" /\ unload' = unload /\ inq'.done) )
        /\ ( th.pc = "done"
             => (th' = th /\ unload' = unload /\ posted' = posted
                 /\ hw' = hw /\ faults' = faults
                 /\ u'.read_count = u.read_count) ) ]_vars

\* a thread that never failed has ended on SHUTDOWN after posting data
C10_Witness ==
    /\ th.pc = "done"
    /\ ~th.failed
    /\ unload = 0
    /\ posted > 0

\* the thread is in a read path, or about to query the driver's revents
InDriver ==
    \/ th.pc \in {"avail", "begin", "commit", "readi", "smooth"}
    \/ (th.pc = "revents" /\ Opened(u.state))

\* C11: the thread-side state changes only while the thread is blocked in
\* the poll core, and a read path or the revents query runs only in state
\* IDLE or RUNNING with the driver handle open and a poll-fd item present.
C11_StateChangesInPoll ==
    [][ /\ (u'.state # u.state => th.pc = "poll")
        /\ (InDriver' => Opened(u'.state) /\ u'.pcm_handle /\ u'.alsa_rtpoll_item) ]_vars

\* C11 (amended): the thread-side state changes only while the thread is
\* blocked in the poll core or, after a fatal exit, draining its queue in
\* pa_asyncmsgq_wait_for; a read path or the revents query runs only in
\* state IDLE or RUNNING with the handle open and a poll-fd item present.
C11_StateChangesInPollOrDrain ==
    [][ /\ (u'.state # u.state => th.pc \in {"poll", "drain"})
        /\ (u'.state # u.state /\ th.pc = "drain" => th.failed /\ th'.pc = "drain")
        /\ (InDriver' => Opened(u'.state) /\ u'.pcm_handle /\ u'.alsa_rtpoll_item) ]_vars

\* a resume has just been applied in the poll core and the thread is about
\* to query the revents of the reopened driver
C11_Witness ==
    /\ th.pc = "revents"
    /\ inq.code = "SET_STATE"
    /\ inq.done
    /\ inq.ret = 0
    /\ snap.set
    /\ Opened(u.state)
    /\ u.alsa_rtpoll_item

(***************************************************************************)
(* The tuning operations on their own: construction, then latency requests *)
(* and avail reports in any order on an open device.  th remembers the     *)
(* last operation and the engine it was applied to.                        *)
(***************************************************************************)
TuneInit ==
    /\ \E a \in NewArgs : u = pa_alsa_source_new(a)
    /\ th = [pc |-> "none"]
    /\ inq = [code |-> "NONE"]
    /\ mainth = [pc |-> "none"]
    /\ posted = 0
    /\ unload = 0
    /\ hw = 0
    /\ faults = 0
    /\ snap = [set |-> FALSE]

\* source_update_requested_latency_cb on an open device
TuneLatency ==
    /\ \E l \in RequestableLatencies(u), sw_ok \in BOOLEAN :
        LET w == [u EXCEPT !.requested_latency = l]
        IN  /\ u' = source_update_requested_latency_cb(w, sw_ok)
            /\ th' = [pc |-> "sw_params", old |-> w, sw_ok |-> sw_ok]
    /\ UNCHANGED << inq, mainth, posted, unload, hw, faults, snap >>

\* a read path hands what avail reported to check_left_to_record
TuneCheckLeft ==
    /\ \E n \in 0 .. (u.hwbuf_size \div u.frame_size) :
        /\ u' = check_left_to_record(u, n * u.frame_size)[1]
        /\ th' = [pc |-> "check", old |-> u, n_bytes |-> n * u.frame_size]
    /\ UNCHANGED << inq, mainth, posted, unload, hw, faults, snap >>

TuneNext ==
    \/ TuneLatency
    \/ TuneCheckLeft

SpecTune == TuneInit /\ [][TuneNext]_vars

(***************************************************************************)
(* Claims about the tuning operations.                                     *)
(***************************************************************************)
\* check_left_to_record has just seen an overrun with timer scheduling on
Overrun ==
    /\ th.pc = "check"
    /\ th.old.use_tsched
    /\ ULess(th.old.hwbuf_size - th.old.hwbuf_unused, th.n_bytes)

\* the watermark the adjuster tries: doubled, capped by the step, re-clamped
RaisedWatermark(w) ==
    fix_tsched_watermark(
        [w EXCEPT !.tsched_watermark =
            PA_MIN(2 * w.tsched_watermark, w.tsched_watermark + w.watermark_step)]).tsched_watermark

\* C12: the overrun adjuster first sets the watermark to min(2W, W + step),
\* re-clamped by fix_tsched_watermark; when that differs from the old
\* watermark it is adopted and the latency range (and everything else) is
\* left as it was.
C12_WatermarkRaisedFirst ==
    Overrun /\ RaisedWatermark(th.old) # th.old.tsched_watermark
        => u = [th.old EXCEPT !.tsched_watermark = RaisedWatermark(th.old)]

C12_Witness ==
    /\ Overrun
    /\ ULess(th.old.tsched_watermark, u.tsched_watermark)
    /\ ULess(u.min_latency * 2, u.max_latency)

\* the minimum latency the adjuster tries: doubled, capped by 10 ms and by
\* the maximum latency
RaisedMinLatency(w) ==
    PA_MIN(PA_MIN(2 * w.min_latency, w.min_latency + 10 * PA_USEC_PER_MSEC), w.max_latency)

\* C13: when the overrun adjuster cannot change the watermark it sets the
\* minimum latency to min(2m, m + 10 ms) clamped to the maximum latency and
\* changes nothing else, so the minimum stays at or below the maximum; when
\* that value is the old minimum the engine is left exactly as it was.
C13_MinLatencyRaisedNext ==
    Overrun /\ RaisedWatermark(th.old) = th.old.tsched_watermark
        => /\ u = [th.old EXCEPT !.min_latency = RaisedMinLatency(th.old)]
           /\ u.min_latency <= u.max_latency
           /\ (RaisedMinLatency(th.old) = th.old.min_latency => u = th.old)

C13_Witness ==
    /\ Overrun
    /\ u.tsched_watermark = th.old.tsched_watermark
    /\ th.old.min_latency < u.min_latency
    /\ u.min_latency = u.max_latency

(***************************************************************************)
(* Claims about overruns and driver errors in the read paths.              *)
(***************************************************************************)
\* this step of a read path is avail reporting more than the usable buffer
AvailOverrunStep ==
    /\ th.pc = "avail"
    /\ th'.pc \in {"begin", "readi"}
    /\ ULess(u.hwbuf_size - u.hwbuf_unused, th'.n_bytes)

\* this step of a read path is a driver call failing and being recovered
RecoveredStep ==
    /\ th.pc \in {"avail", "begin", "commit", "readi"}
    /\ faults' < faults
    /\ th'.pc # "fail"

\* what the overrun adjuster tunes
Tuning(w) ==
    << w.tsched_watermark, w.min_latency, w.max_latency >>

\* C14: with timer scheduling every detected overrun invokes the overrun
\* adjuster, when avail reports more than the usable buffer and when a driver
\* call fails and is recovered alike; without timer scheduling no step of a
\* read path adjusts anything.
C14_EveryOverrunAdjusts ==
    [][ /\ (AvailOverrunStep /\ u.use_tsched => u' = adjust_after_overrun(u))
        /\ (RecoveredStep /\ u.use_tsched => u' = adjust_after_overrun(u))
        /\ (th.pc \in {"avail", "begin", "commit", "readi"} /\ ~u.use_tsched
                => Tuning(u') = Tuning(u)) ]_vars

\* C14 (amended): with timer scheduling the overrun adjuster is invoked when
\* avail reports more than the usable buffer, and by no other step of a read
\* path: a driver call that fails and is recovered leaves the engine as it
\* was.  Without timer scheduling no step of a read path adjusts anything.
C14_AvailOverrunAdjusts ==
    [][ /\ (AvailOverrunStep /\ u.use_tsched => u' = adjust_after_overrun(u))
        /\ (RecoveredStep => u' = u)
        /\ (th.pc \in {"avail", "begin", "commit", "readi"} /\ Tuning(u') # Tuning(u)
                => AvailOverrunStep /\ u.use_tsched) ]_vars

C14_Witness ==
    /\ th.pc \in {"begin", "readi"}
    /\ u.use_tsched
    /\ ULess(u.hwbuf_size - u.hwbuf_unused, th.n_bytes)
    /\ faults < MaxFaults
    /\ u.min_latency > 4000

\* the latency hw_sleep_time budgets for
BudgetLatency(w) ==
    IF w.requested_latency = NoLatency
    THEN pa_bytes_to_usec(w.hwbuf_size, sample_spec(w))
    ELSE w.requested_latency

\* the watermark as a duration
WatermarkTime(w) ==
    pa_bytes_to_usec(w.tsched_watermark, sample_spec(w))

\* C15: hw_sleep_time budgets for L, the requested latency or else the
\* duration of the whole hardware buffer; process is the watermark's duration,
\* or L/2 when that duration exceeds L, and sleep is L - process, so that
\* sleep + process = L and sleep is a true difference between 0 and L.
C15_SleepPlusProcess ==
    LET r == hw_sleep_time(u)
        L == BudgetLatency(u)
    IN  /\ r.usec = L
        /\ r.process_usec = (IF WatermarkTime(u) > L THEN L \div 2 ELSE WatermarkTime(u))
        /\ r.sleep_usec + r.process_usec = L
        /\ 0 <= r.sleep_usec /\ r.sleep_usec <= L

C15_Witness ==
    /\ th.pc = "sw_params"
    /\ u.use_tsched
    /\ WatermarkTime(u) > BudgetLatency(u)
    /\ hw_sleep_time(u).process_usec = BudgetLatency(u) \div 2

\* C16: in an opened state with timer scheduling the relative timer is armed
\* with min(s, translate(now, s)), s being the sleep_usec the read path
\* returned, time(left_to_record) - process; the armed delay is never beyond
\* s.  In a state that is not opened, with timer scheduling, the timer is
\* disabled before the thread blocks.
C16_TimerArmedWithMin ==
    [][ /\ (th.pc = "smooth" /\ th'.pc = "poll" /\ u.use_tsched
              => /\ th.sleep_usec = pa_bytes_to_usec(th.left_to_record, sample_spec(u))
                                        - th.process_usec
                 /\ th'.timer.on
                 /\ \E c \in Translate(th.sleep_usec) :
                        th'.timer.usec = (IF ULess(c, th.sleep_usec) THEN c ELSE th.sleep_usec)
                 /\ ~ULess(th.sleep_usec, th'.timer.usec))
        /\ (th.pc = "loop" /\ th'.pc = "poll" /\ u.use_tsched
              => ~Opened(u.state) /\ ~th'.timer.on) ]_vars

C16_Witness ==
    /\ th.pc = "poll"
    /\ u.use_tsched
    /\ Opened(u.state)
    /\ th.timer.on
    /\ 0 < th.timer.usec
    /\ th.timer.usec < th.sleep_usec

\* update_sw_params has just run: at construction, or for a latency request
AfterSwParams ==
    th.pc \in {"none", "sw_params"}

\* update_sw_params has just run and the driver took the sw-params
SwParamsPushed ==
    th.pc = "none" \/ (th.pc = "sw_params" /\ th.sw_ok)

\* C17: whenever update_sw_params runs with no latency requested it sets
\* hwbuf_unused = 0 and pushes avail_min = 1, with or without timer
\* scheduling.
C17_NoLatencyAvailMinOne ==
    AfterSwParams /\ u.requested_latency = NoLatency
        => /\ u.hwbuf_unused = 0
           /\ (SwParamsPushed => u.avail_min = 1)

\* C17 (amended): whenever update_sw_params runs with no latency requested it
\* sets hwbuf_unused = 0; it pushes avail_min = 1 without timer scheduling,
\* and with timer scheduling avail_min = 1 + the frames of hw_sleep_time's
\* sleep_usec.
C17_NoLatencyAvailMin ==
    AfterSwParams /\ u.requested_latency = NoLatency
        => /\ u.hwbuf_unused = 0
           /\ (SwParamsPushed /\ ~u.use_tsched => u.avail_min = 1)
           /\ (SwParamsPushed /\ u.use_tsched
                 => u.avail_min = 1 + pa_usec_to_bytes(hw_sleep_time(u).sleep_usec, sample_spec(u))
                                          \div u.frame_size)

C17_Witness ==
    /\ th.pc = "sw_params"
    /\ th.sw_ok
    /\ th.old.hwbuf_unused > 0
    /\ u.requested_latency = NoLatency
    /\ u.use_tsched
    /\ u.hwbuf_unused = 0
    /\ u.avail_min > 1

\* C18: with timer scheduling and a latency requested, update_sw_params takes
\* b = bytes(latency), at least frame_size, and sets hwbuf_unused to
\* hwbuf_size - b, or 0 when b is not below hwbuf_size; a latency below one
\* frame gives hwbuf_unused = hwbuf_size - frame_size, and the usable buffer
\* is at least one frame and at most the whole buffer.
C18_UnusedFromLatency ==
    AfterSwParams /\ u.use_tsched /\ u.requested_latency # NoLatency
        => LET b0 == pa_usec_to_bytes(u.requested_latency, sample_spec(u))
               b == IF b0 < u.frame_size THEN u.frame_size ELSE b0
           IN  /\ u.hwbuf_unused = (IF u.hwbuf_size - b > 0 THEN u.hwbuf_size - b ELSE 0)
               /\ (b0 < u.frame_size => u.hwbuf_unused = u.hwbuf_size - u.frame_size)
               /\ u.hwbuf_size - u.hwbuf_unused >= u.frame_size
               /\ 0 <= u.hwbuf_unused /\ u.hwbuf_unused <= u.hwbuf_size

C18_Witness ==
    /\ th.pc = "sw_params"
    /\ u.use_tsched
    /\ u.requested_latency # NoLatency
    /\ pa_usec_to_bytes(u.requested_latency, sample_spec(u)) < u.frame_size
    /\ u.hwbuf_unused = u.hwbuf_size - u.frame_size
    /\ u.hwbuf_unused > 0

(***************************************************************************)
(* Claims about latency queries.                                           *)
(***************************************************************************)
\* this step is the capture thread answering a latency query
LatencyAnswered ==
    inq.code = "GET_LATENCY" /\ ~inq.done /\ inq'.done

\* C19: a latency query is answered with max(0, smoother.at(now) -
\* bytes_to_usec(read_count)) while the device is open and with 0 while it is
\* closed: never with a negative (wrapped) value; it succeeds and changes
\* nothing in the engine.
C19_LatencyNeverNegative ==
    [][ LatencyAnswered
          => /\ inq'.ret = 0
             /\ u' = u
             /\ inq'.reply >= 0
             /\ IF u.pcm_handle
                THEN LET diff == inq'.now2 - pa_bytes_to_usec(u.read_count, sample_spec(u))
                     IN  /\ inq'.now2 \in SmootherTimes
                         /\ inq'.reply = (IF diff > 0 THEN diff ELSE 0)
                ELSE inq'.reply = 0 ]_vars

C19_Witness ==
    /\ inq.code = "GET_LATENCY"
    /\ inq.done
    /\ u.pcm_handle
    /\ inq.now2 < pa_bytes_to_usec(u.read_count, sample_spec(u))
    /\ inq.reply = 0

\* the points of a read path at which a driver call is made
ReadPcs ==
    {"avail", "begin", "commit", "readi"}

\* where a read path goes on after a recovered failure: the enclosing loop
\* is continued, which for mmap_commit means mmap_begin again
RetryPc(pc) ==
    IF pc = "commit" THEN "begin" ELSE pc

\* this step of a read path is a driver call failing
DriverCallFailed ==
    th.pc \in ReadPcs /\ faults' < faults

\* C20: a read path returns a negative value exactly when a driver call
\* failed and its one recovery attempt failed too; a failure that is
\* recovered is followed by snd_pcm_start and the retry of the step, with
\* nothing returned and nothing else changed; a negative return is never
\* carried on into the loop body: the thread's next step is the fatal exit.
C20_NegativeIffUnrecovered ==
    [][ /\ ((th.pc \in ReadPcs /\ th'.ret < 0) <=> (DriverCallFailed /\ ~th'.restarted))
        /\ (DriverCallFailed /\ th'.restarted
              => /\ th'.pc = RetryPc(th.pc)
                 /\ th'.ret >= 0
                 /\ u' = u /\ posted' = posted)
        /\ (th.pc \in ReadPcs /\ th'.ret < 0 => th'.pc = "fail")
        /\ (th.pc = "fail" /\ th' # th
              => th'.pc = "drain" /\ th'.failed /\ unload' = unload + 1)
        /\ (th'.pc = "smooth" => th'.ret >= 0) ]_vars

C20_Witness ==
    /\ th.pc = "drain"
    /\ th.failed
    /\ th.ret < 0
    /\ unload = 1
    /\ u.read_count > 0

(***************************************************************************)
(* The engine on a driver whose avail never runs out of failures: once the *)
(* budget of failures is used up, avail may still fail and be recovered.   *)
(* The capture thread is scheduled.                                        *)
(***************************************************************************)
\* mmap_read and unix_read, lines 346 and 489: pa_alsa_safe_avail fails
ThreadAvailFailsAgain ==
    /\ Alive
    /\ th.pc = "avail"
    /\ faults = 0
    /\ th' = [th EXCEPT !.pc = "recover", !.restarted = FALSE]
    /\ UNCHANGED << u, inq, mainth, posted, unload, hw, faults, snap >>

\* lines 348-349 and 491-492: try_recover returns 0, the loop is continued
ThreadRecoversAgain ==
    /\ Alive
    /\ th.pc = "recover"
    /\ th' = PathError(th, "avail", TRUE)
    /\ UNCHANGED << u, inq, mainth, posted, unload, hw, faults, snap >>

StormThread ==
    \/ ThreadNext
    \/ ThreadAvailFailsAgain
    \/ ThreadRecoversAgain

StormNext ==
    \/ StormThread
    \/ MainNext

SpecCaptureStorm ==
    /\ FairInit
    /\ [][StormNext]_vars
    /\ WF_vars(StormThread)

\* C21: every invocation of a read path comes to an end, whatever the driver
\* does: also when it keeps answering avail, mmap_begin, mmap_commit or readi
\* with errors that try_recover recovers.
C21_ReadPathTerminates ==
    (th.pc \in {"avail", "recover", "begin", "commit", "readi"})
        ~> (th.pc \notin {"avail", "recover", "begin", "commit", "readi"})

(***************************************************************************)
(* Claims about wakes and the polled flag.                                 *)
(***************************************************************************)
\* this step is a read path, entered after a POLLIN, finding nothing in avail
SpuriousPollin ==
    /\ th.pc = "avail"
    /\ th.polled
    /\ th'.pc = "smooth"

C23_EachRegionPostedOnce ==
    [][ posted' # posted
          => /\ posted = u.read_count
             /\ posted' > posted ]_vars

(***************************************************************************)
(* The mixer: setup_mixer and the hardware volume callbacks, for one       *)
(* channel.  Here u holds the mixer fields of the engine and of its        *)
(* source, and th the last operation.                                      *)
(***************************************************************************)
PA_VOLUME_NORM == 65536

\* PA_CLAMP_UNLIKELY on signed values
PA_CLAMP_UNLIKELY(x, low, high) ==
    IF x > high THEN high ELSE IF x < low THEN low ELSE x

\* round() of the quotient p / q of a non-negative p and a positive q
round_div(p, q) ==
    (2 * p + q) \div (2 * q)

from_alsa_volume(w, alsa_vol) ==
    round_div((alsa_vol - w.hw_volume_min) * PA_VOLUME_NORM,
              w.hw_volume_max - w.hw_volume_min)

\* as to_alsa_volume, but forgetting where the hardware range starts
to_alsa_volume_no_offset(w, vol) ==
    PA_CLAMP_UNLIKELY(round_div(vol * (w.hw_volume_max - w.hw_volume_min), PA_VOLUME_NORM),
                      w.hw_volume_min, w.hw_volume_max)

to_alsa_volume(w, vol) ==
    LET alsa_vol == round_div(vol * (w.hw_volume_max - w.hw_volume_min), PA_VOLUME_NORM)
                        + w.hw_volume_min
    IN  PA_CLAMP_UNLIKELY(alsa_vol, w.hw_volume_min, w.hw_volume_max)

\* what the mixer element answers to setup_mixer
MixerAnswers ==
    [mixer_handle : BOOLEAN,
     has_capture_volume : BOOLEAN,
     range_ok : BOOLEAN,
     hw_volume_min : {0 - 5, 0, 10},
     width : {0, 1, 2, 3, 7, 100, 255},
     ignore_dB : BOOLEAN,
     \* "none": no dB range, "bad": hw_dB_min >= hw_dB_max, "good": a range
     dB : {"none", "bad", "good"},
     has_capture_switch : BOOLEAN,
     fdlist_ok : BOOLEAN]

\* the engine before setup_mixer: pa_xnew0, and a source without hardware
\* controls
NoMixer ==
    [mixer_handle |-> FALSE, hw_volume_min |-> 0, hw_volume_max |-> 0,
     hw_dB_supported |-> FALSE, hw_dB_min |-> 0, hw_dB_max |-> 0,
     get_volume |-> FALSE, set_volume |-> FALSE, get_mute |-> FALSE, set_mute |-> FALSE,
     flags |-> {}, n_volume_steps |-> PA_VOLUME_NORM + 1,
     alsa_vol |-> 0, hardware_volume |-> 0, virtual_volume |-> PA_VOLUME_NORM,
     ret |-> 0]

\* as setup_mixer, but declining every range of less than 4 levels
setup_mixer_strict(m) ==
    LET w0 == [NoMixer EXCEPT !.mixer_handle = m.mixer_handle]
        ranged == m.has_capture_volume /\ m.range_ok
        w1 == IF ranged
              THEN [w0 EXCEPT !.hw_volume_min = m.hw_volume_min,
                              !.hw_volume_max = m.hw_volume_min + m.width,
                              !.alsa_vol = m.hw_volume_min]
              ELSE w0
        suitable0 == ranged /\ w1.hw_volume_min < w1.hw_volume_max
        dB == suitable0 /\ ~m.ignore_dB /\ m.dB = "good"
        w2 == IF suitable0 /\ ~m.ignore_dB /\ m.dB # "none"
              THEN [w1 EXCEPT !.hw_dB_min = IF m.dB = "good" THEN 0 - 3000 ELSE 0,
                              !.hw_dB_max = 0,
                              !.hw_dB_supported = dB]
              ELSE w1
        suitable == suitable0 /\ ~(w2.hw_volume_max - w2.hw_volume_min < 3)
        w3 == IF suitable
              THEN [w2 EXCEPT !.get_volume = TRUE, !.set_volume = TRUE,
                              !.flags = @ \cup {"HW_VOLUME_CTRL"}
                                          \cup (IF dB THEN {"DECIBEL_VOLUME"} ELSE {}),
                              !.n_volume_steps = IF dB THEN @
                                                 ELSE w2.hw_volume_max - w2.hw_volume_min + 1]
              ELSE w2
        w4 == IF m.has_capture_switch
              THEN [w3 EXCEPT !.get_mute = TRUE, !.set_mute = TRUE,
                              !.flags = @ \cup {"HW_MUTE_CTRL"}]
              ELSE w3
    IN  IF ~m.mixer_handle THEN w0
        ELSE [w4 EXCEPT !.ret = IF m.fdlist_ok THEN 0 ELSE 0 - 1]

\* m: what the mixer element and pa_alsa_fdlist_set_mixer answer
setup_mixer(m) ==
    LET w0 == [NoMixer EXCEPT !.mixer_handle = m.mixer_handle]
        \* lines 1272-1279
        ranged == m.has_capture_volume /\ m.range_ok
        w1 == IF ranged
              THEN [w0 EXCEPT !.hw_volume_min = m.hw_volume_min,
                              !.hw_volume_max = m.hw_volume_min + m.width,
                              !.alsa_vol = m.hw_volume_min]
              ELSE w0
        suitable0 == ranged /\ w1.hw_volume_min < w1.hw_volume_max
        \* lines 1281-1302
        dB == suitable0 /\ ~m.ignore_dB /\ m.dB = "good"
        w2 == IF suitable0 /\ ~m.ignore_dB /\ m.dB # "none"
              THEN [w1 EXCEPT !.hw_dB_min = IF m.dB = "good" THEN 0 - 3000 ELSE 0,
                              !.hw_dB_max = 0,
                              !.hw_dB_supported = dB]
              ELSE w1
        \* lines 1304-1309
        suitable == suitable0
                      /\ ~(~w2.hw_dB_supported /\ w2.hw_volume_max - w2.hw_volume_min < 3)
        \* lines 1312-1323
        w3 == IF suitable
              THEN [w2 EXCEPT !.get_volume = TRUE, !.set_volume = TRUE,
                              !.flags = @ \cup {"HW_VOLUME_CTRL"}
                                          \cup (IF dB THEN {"DECIBEL_VOLUME"} ELSE {}),
                              !.n_volume_steps = IF dB THEN @
                                                 ELSE w2.hw_volume_max - w2.hw_volume_min + 1]
              ELSE w2
        \* lines 1326-1331
        w4 == IF m.has_capture_switch
              THEN [w3 EXCEPT !.get_mute = TRUE, !.set_mute = TRUE,
                              !.flags = @ \cup {"HW_MUTE_CTRL"}]
              ELSE w3
    IN  IF ~m.mixer_handle THEN w0
        ELSE [w4 EXCEPT !.ret = IF m.fdlist_ok THEN 0 ELSE 0 - 1]

\* the normalized volumes the model asks for
Volumes ==
    { v \in 0 .. PA_VOLUME_NORM : v % 521 = 0 \/ v % 8192 \in {0, 1, 8191} }

\* what pa_sw_volume_from_dB may answer
VolumesFromdB ==
    {0, PA_VOLUME_NORM}

\* source_set_volume_cb without a dB scale: the volume asked for is written
\* to the hardware and what the hardware reads back becomes the volume
source_set_volume_cb(w, vol) ==
    LET alsa_vol == to_alsa_volume(w, vol)
        r == from_alsa_volume(w, alsa_vol)
    IN  [w EXCEPT !.alsa_vol = alsa_vol, !.hardware_volume = r, !.virtual_volume = r]

\* source_get_volume_cb without a dB scale; alsa_vol is what the hardware holds
source_get_volume_cb(w, alsa_vol) ==
    LET r == from_alsa_volume(w, alsa_vol)
    IN  IF w.hardware_volume # r
        THEN [w EXCEPT !.alsa_vol = alsa_vol, !.hardware_volume = r, !.virtual_volume = r]
        ELSE [w EXCEPT !.alsa_vol = alsa_vol]

\* the variables of the capture engine, unused here
EngineRest == << inq, mainth, posted, unload, hw, faults, snap >>

MixerInit ==
    /\ \E m \in MixerAnswers : u = setup_mixer(m) /\ th = [pc |-> "setup", m |-> m]
    /\ inq = [code |-> "NONE"]
    /\ mainth = [pc |-> "none"]
    /\ posted = 0
    /\ unload = 0
    /\ hw = 0
    /\ faults = 0
    /\ snap = [set |-> FALSE]

\* the core sets a volume
MixerSetVolume ==
    /\ u.ret = 0
    /\ u.set_volume
    /\ IF u.hw_dB_supported
       THEN \E dB \in {u.hw_dB_min, u.hw_dB_max}, r \in VolumesFromdB :
              /\ u' = [u EXCEPT !.alsa_vol = dB, !.hardware_volume = r]
              /\ th' = [pc |-> "set_dB"]
       ELSE \E vol \in Volumes :
              /\ u' = source_set_volume_cb([u EXCEPT !.virtual_volume = vol], vol)
              /\ th' = [pc |-> "set", vol |-> vol]
    /\ UNCHANGED EngineRest

\* the mixer reports a change, or the core asks for the volume
MixerGetVolume ==
    /\ u.ret = 0
    /\ u.get_volume
    /\ IF u.hw_dB_supported
       THEN \E dB \in {u.hw_dB_min, u.hw_dB_max}, r \in VolumesFromdB :
              /\ u' = [u EXCEPT !.alsa_vol = dB, !.hardware_volume = r, !.virtual_volume = r]
              /\ th' = [pc |-> "get_dB"]
       ELSE \E alsa_vol \in {u.hw_volume_min, u.hw_volume_min + 1, u.hw_volume_max} :
              /\ u' = source_get_volume_cb(u, alsa_vol)
              /\ th' = [pc |-> "get", alsa_vol |-> alsa_vol]
    /\ UNCHANGED EngineRest

MixerNext ==
    \/ MixerSetVolume
    \/ MixerGetVolume

SpecMixer == MixerInit /\ [][MixerNext]_vars

(***************************************************************************)
(* Claims about the mixer.                                                 *)
(***************************************************************************)
\* C24: with a hardware range of at least 3, a normalized volume converted
\* to the hardware scale lies within the range, and converted back it is off
\* by at most one hardware step, PA_VOLUME_NORM / (max - min).
C24_VolumeRoundTrip ==
    th.pc = "set" /\ u.hw_volume_max - u.hw_volume_min >= 3
        => LET range == u.hw_volume_max - u.hw_volume_min
               diff == u.hardware_volume - th.vol
           IN  /\ u.alsa_vol = to_alsa_volume(u, th.vol)
               /\ u.hw_volume_min <= u.alsa_vol /\ u.alsa_vol <= u.hw_volume_max
               /\ u.hardware_volume = from_alsa_volume(u, u.alsa_vol)
               /\ diff * range <= PA_VOLUME_NORM
               /\ (0 - diff) * range <= PA_VOLUME_NORM

C24_Witness ==
    /\ th.pc = "set"
    /\ u.hw_volume_max - u.hw_volume_min = 3
    /\ u.hw_volume_min < 0
    /\ u.hardware_volume # th.vol
    /\ u.alsa_vol = u.hw_volume_min + 2


\* setup_mixer was given a capture volume range of less than 4 levels
SmallRange ==
    /\ th.pc = "setup"
    /\ th.m.mixer_handle /\ th.m.has_capture_volume /\ th.m.range_ok
    /\ th.m.width < 3

HardwareVolumeDeclined ==
    ~u.get_volume /\ ~u.set_volume /\ "HW_VOLUME_CTRL" \notin u.flags

\* C25 as stated: a capture volume range with max - min < 3 makes
\* setup_mixer decline hardware volume control, whether or not the mixer
\* offers a valid dB range.
C25_SmallRangeDeclined ==
    SmallRange => HardwareVolumeDeclined

\* C25: a capture volume range with max - min < 3 makes setup_mixer decline
\* hardware volume control unless the mixer offers a valid dB range that is
\* not ignored; a non-empty range with such a dB scale gets the callbacks,
\* the hardware-volume flag and the decibel flag.
C25_SmallRangeDeclinedWithoutdB ==
    SmallRange =>
        IF th.m.width > 0 /\ ~th.m.ignore_dB /\ th.m.dB = "good"
        THEN /\ u.get_volume /\ u.set_volume
             /\ {"HW_VOLUME_CTRL", "DECIBEL_VOLUME"} \subseteq u.flags
             /\ u.hw_dB_supported
        ELSE HardwareVolumeDeclined

C25_Witness ==
    /\ SmallRange
    /\ th.m.width = 2
    /\ th.m.dB = "bad"
    /\ ~th.m.ignore_dB
    /\ HardwareVolumeDeclined
    /\ "HW_MUTE_CTRL" \in u.flags


(***************************************************************************)
(* The event-loop bridge: watches and timeouts of a collaborator, each     *)
(* backed by an io or time event of the main loop.  Here u holds the       *)
(* bridge's objects and the main loop's events, and th the dispatch in     *)
(* progress and the last call.                                             *)
(***************************************************************************)
\* poll(2) bits, as AvahiWatchEvent uses them
AVAHI_WATCH_IN == 1
AVAHI_WATCH_OUT == 4
AVAHI_WATCH_ERR == 8
AVAHI_WATCH_HUP == 16

\* pa_io_event_flags_t
PA_IO_EVENT_INPUT == 1
PA_IO_EVENT_OUTPUT == 2
PA_IO_EVENT_HANGUP == 4
PA_IO_EVENT_ERROR == 8

\* e & bit, as a truth value; bit is a power of two
HasFlag(e, bit) ==
    (e \div bit) % 2 = 1

translate_io_flags_back(e) ==
      (IF HasFlag(e, PA_IO_EVENT_INPUT) THEN AVAHI_WATCH_IN ELSE 0)
    + (IF HasFlag(e, PA_IO_EVENT_OUTPUT) THEN AVAHI_WATCH_OUT ELSE 0)
    + (IF HasFlag(e, PA_IO_EVENT_ERROR) THEN AVAHI_WATCH_ERR ELSE 0)
    + (IF HasFlag(e, PA_IO_EVENT_HANGUP) THEN AVAHI_WATCH_HUP ELSE 0)

\* as translate_io_flags, with the error and hangup results exchanged
translate_io_flags_swapped(e) ==
      (IF HasFlag(e, AVAHI_WATCH_IN) THEN PA_IO_EVENT_INPUT ELSE 0)
    + (IF HasFlag(e, AVAHI_WATCH_OUT) THEN PA_IO_EVENT_OUTPUT ELSE 0)
    + (IF HasFlag(e, AVAHI_WATCH_ERR) THEN PA_IO_EVENT_HANGUP ELSE 0)
    + (IF HasFlag(e, AVAHI_WATCH_HUP) THEN PA_IO_EVENT_ERROR ELSE 0)

translate_io_flags(e) ==
      (IF HasFlag(e, AVAHI_WATCH_IN) THEN PA_IO_EVENT_INPUT ELSE 0)
    + (IF HasFlag(e, AVAHI_WATCH_OUT) THEN PA_IO_EVENT_OUTPUT ELSE 0)
    + (IF HasFlag(e, AVAHI_WATCH_ERR) THEN PA_IO_EVENT_ERROR ELSE 0)
    + (IF HasFlag(e, AVAHI_WATCH_HUP) THEN PA_IO_EVENT_HANGUP ELSE 0)

\* the sum of a set of distinct bits
RECURSIVE FlagSum(_)
FlagSum(S) ==
    IF S = {} THEN 0 ELSE LET b == CHOOSE x \in S : TRUE IN b + FlagSum(S \ {b})

\* every AvahiWatchEvent over the four flags, and every pa_io_event_flags_t
AvahiWatchEvents ==
    { FlagSum(S) : S \in SUBSET {AVAHI_WATCH_IN, AVAHI_WATCH_OUT, AVAHI_WATCH_ERR, AVAHI_WATCH_HUP} }

PaIoEvents ==
    { FlagSum(S) : S \in SUBSET {PA_IO_EVENT_INPUT, PA_IO_EVENT_OUTPUT, PA_IO_EVENT_ERROR, PA_IO_EVENT_HANGUP} }

\* The translations on their own: u holds an event mask of either kind,
\* th the last translation and what translating its result back gives.
FlagsInit ==
    /\ \E e \in AvahiWatchEvents, f \in PaIoEvents : u = [avahi |-> e, pa |-> f]
    /\ th = [pc |-> "none", out |-> 0, again |-> 0]
    /\ inq = [code |-> "NONE"]
    /\ mainth = [pc |-> "none"]
    /\ posted = 0
    /\ unload = 0
    /\ hw = 0
    /\ faults = 0
    /\ snap = [set |-> FALSE]

\* watch_new and watch_update translate the mask the collaborator passes
TranslateFlags ==
    /\ th' = [pc |-> "translate_io_flags",
              out |-> translate_io_flags(u.avahi),
              again |-> translate_io_flags_back(translate_io_flags(u.avahi))]
    /\ UNCHANGED << u, inq, mainth, posted, unload, hw, faults, snap >>

\* watch_callback translates the mask the main loop reports
TranslateFlagsBack ==
    /\ th' = [pc |-> "translate_io_flags_back",
              out |-> translate_io_flags_back(u.pa),
              again |-> translate_io_flags(translate_io_flags_back(u.pa))]
    /\ UNCHANGED << u, inq, mainth, posted, unload, hw, faults, snap >>

FlagsNext ==
    \/ TranslateFlags
    \/ TranslateFlagsBack

SpecFlags == FlagsInit /\ [][FlagsNext]_vars

\* the masks the collaborator passes and the main loop reports where the
\* life cycle of watches is followed
BridgeWatchEvents ==
    {0, AVAHI_WATCH_IN, AVAHI_WATCH_ERR + AVAHI_WATCH_HUP}

BridgeIoEvents ==
    {PA_IO_EVENT_INPUT, PA_IO_EVENT_OUTPUT + PA_IO_EVENT_HANGUP}

\* how many watches and timeouts the collaborator holds at a time, and how
\* many io and time events the main loop hands out
MaxWatches == 2
MaxTimeouts == 1

WatchIds == 1 .. MaxWatches
IoIds == 1 .. MaxWatches
TimeoutIds == 1 .. MaxTimeouts
TimeIds == 1 .. MaxTimeouts

\* the times a timeout is set to; "NULL" disables it
Timevals == {"NULL", "soon"}

\* memory that holds no watch, no timeout, no event; asked is the event
\* mask the collaborator last passed for the watch
NoWatch == [live |-> FALSE, io_event |-> 0, current_event |-> 0, asked |-> 0]
NoTimeout == [live |-> FALSE, time_event |-> 0]
NoIo == [live |-> FALSE, flags |-> 0, userdata |-> 0]
NoTime == [live |-> FALSE, tv |-> "NULL", userdata |-> 0]

\* no dispatch in progress
NoDispatch == [pc |-> "idle", w |-> 0, events |-> 0, freed |-> FALSE]

pa_avahi_poll_new ==
    [watch |-> [w \in WatchIds |-> NoWatch],
     timeout |-> [t \in TimeoutIds |-> NoTimeout],
     io |-> [e \in IoIds |-> NoIo],
     time |-> [e \in TimeIds |-> NoTime],
     \* an event was released that was not live
     bad_free |-> FALSE,
     \* a write through a dangling watch pointer has landed in memory the
     \* allocator has handed out again
     clobbered |-> FALSE]

\* the main loop's io_free and time_free
io_free(b, e) ==
    IF e \in IoIds /\ b.io[e].live
    THEN [b EXCEPT !.io[e] = NoIo]
    ELSE [b EXCEPT !.bad_free = TRUE]

time_free(b, e) ==
    IF e \in TimeIds /\ b.time[e].live
    THEN [b EXCEPT !.time[e] = NoTime]
    ELSE [b EXCEPT !.bad_free = TRUE]

\* w: the memory pa_xnew hands out, e: the event io_new hands out
watch_new(b, w, e, event) ==
    [b EXCEPT !.watch[w] = [live |-> TRUE, io_event |-> e, current_event |-> 0,
                            asked |-> event],
              !.io[e] = [live |-> TRUE, flags |-> translate_io_flags(event), userdata |-> w]]

watch_update(b, w, event) ==
    [b EXCEPT !.io[b.watch[w].io_event].flags = translate_io_flags(event),
              !.watch[w].asked = event]

watch_get_events(b, w) ==
    b.watch[w].current_event

\* as watch_free, but keeping the main loop's event
watch_free_leaking(b, w) ==
    [b EXCEPT !.watch[w] = NoWatch]

watch_free(b, w) ==
    [io_free(b, b.watch[w].io_event) EXCEPT !.watch[w] = NoWatch]

timeout_new(b, t, e, tv) ==
    [b EXCEPT !.timeout[t] = [live |-> TRUE, time_event |-> e],
              !.time[e] = [live |-> TRUE, tv |-> tv, userdata |-> t]]

timeout_update(b, t, tv) ==
    [b EXCEPT !.time[b.timeout[t].time_event].tv = tv]

timeout_free(b, t) ==
    [time_free(b, b.timeout[t].time_event) EXCEPT !.timeout[t] = NoTimeout]

BridgeInit ==
    /\ u = pa_avahi_poll_new
    /\ th = NoDispatch
    /\ inq = [code |-> "NONE"]
    /\ mainth = [pc |-> "none"]
    /\ posted = 0
    /\ unload = 0
    /\ hw = 0
    /\ faults = 0
    /\ snap = [set |-> FALSE]

\* The collaborator's calls; it makes them from the main loop's thread, also
\* from inside a callback, and only on watches and timeouts it holds.
WatchNew ==
    \E w \in WatchIds, e \in IoIds, event \in BridgeWatchEvents :
        /\ ~u.watch[w].live
        /\ ~u.io[e].live
        /\ u' = watch_new(u, w, e, event)
        /\ UNCHANGED th
        /\ UNCHANGED EngineRest

WatchUpdate ==
    \E w \in WatchIds, event \in BridgeWatchEvents :
        /\ u.watch[w].live
        /\ u' = watch_update(u, w, event)
        /\ UNCHANGED th
        /\ UNCHANGED EngineRest

WatchGetEvents ==
    \E w \in WatchIds :
        /\ u.watch[w].live
        /\ watch_get_events(u, w) \in AvahiWatchEvents
        /\ UNCHANGED << u, th >>
        /\ UNCHANGED EngineRest

WatchFree ==
    \E w \in WatchIds :
        /\ u.watch[w].live
        /\ u' = watch_free(u, w)
        \* freed: the watch whose callback is running
        /\ th' = [th EXCEPT !.freed = @ \/ (th.pc = "callback" /\ th.w = w)]
        /\ UNCHANGED EngineRest

\* watch_callback up to the call of the user's callback: the main loop
\* dispatches a live io event
WatchCallback ==
    \E e \in IoIds, events \in BridgeIoEvents :
        /\ th.pc = "idle"
        /\ u.io[e].live
        /\ LET w == u.io[e].userdata
           IN  /\ u' = [u EXCEPT !.watch[w].current_event = translate_io_flags_back(events)]
               /\ th' = [NoDispatch EXCEPT !.pc = "callback", !.w = w, !.events = events]
        /\ UNCHANGED EngineRest

\* watch_callback after the user's callback returned: w->current_event = 0,
\* a write to freed memory if the callback freed the watch.  Such a write
\* either lands in memory nobody uses, or in the freed watch's old place
\* taken by a new watch (whose current_event is 0 already), or in another
\* object the allocator has put there.
WatchCallbackReturn ==
    /\ th.pc = "callback"
    /\ \E reused \in BOOLEAN :
          u' = IF th.freed
               THEN [u EXCEPT !.clobbered = @ \/ reused]
               ELSE [u EXCEPT !.watch[th.w].current_event = 0]
    /\ th' = [NoDispatch EXCEPT !.pc = IF th.freed THEN "wrote_freed" ELSE "idle"]
    /\ UNCHANGED EngineRest

\* the main loop goes on after a dispatch that wrote to a freed watch
WatchWroteFreed ==
    /\ th.pc = "wrote_freed"
    /\ th' = NoDispatch
    /\ UNCHANGED u
    /\ UNCHANGED EngineRest

TimeoutNew ==
    \E t \in TimeoutIds, e \in TimeIds, tv \in Timevals :
        /\ ~u.timeout[t].live
        /\ ~u.time[e].live
        /\ u' = timeout_new(u, t, e, tv)
        /\ UNCHANGED th
        /\ UNCHANGED EngineRest

TimeoutUpdate ==
    \E t \in TimeoutIds, tv \in Timevals :
        /\ u.timeout[t].live
        /\ u' = timeout_update(u, t, tv)
        /\ UNCHANGED th
        /\ UNCHANGED EngineRest

TimeoutFree ==
    \E t \in TimeoutIds :
        /\ u.timeout[t].live
        /\ u' = timeout_free(u, t)
        /\ UNCHANGED th
        /\ UNCHANGED EngineRest

\* timeout_callback: the main loop fires an enabled time event, which it
\* disables before it calls
TimeoutCallback ==
    \E e \in TimeIds :
        /\ th.pc = "idle"
        /\ u.time[e].live
        /\ u.time[e].tv # "NULL"
        /\ u' = [u EXCEPT !.time[e].tv = "NULL"]
        /\ UNCHANGED th
        /\ UNCHANGED EngineRest

BridgeNext ==
    \/ WatchNew
    \/ WatchUpdate
    \/ WatchGetEvents
    \/ WatchFree
    \/ WatchCallback
    \/ WatchCallbackReturn
    \/ WatchWroteFreed
    \/ TimeoutNew
    \/ TimeoutUpdate
    \/ TimeoutFree
    \/ TimeoutCallback

SpecBridge == BridgeInit /\ [][BridgeNext]_vars

(***************************************************************************)
(* Claims about the event-loop bridge.                                     *)
(***************************************************************************)
\* C26: the two flag translations are mutually inverse on the four flags:
\* every subset of {IN, OUT, ERR, HUP} translated and translated back is
\* itself, so is every subset of {INPUT, OUTPUT, ERROR, HANGUP}, and each
\* flag maps to its same-named counterpart.
C26_TranslationsInverse ==
    /\ th.pc = "translate_io_flags"
          => /\ th.out = translate_io_flags(u.avahi)
             /\ th.out \in PaIoEvents
             /\ th.again = u.avahi
    /\ th.pc = "translate_io_flags_back"
          => /\ th.out = translate_io_flags_back(u.pa)
             /\ th.out \in AvahiWatchEvents
             /\ th.again = u.pa
    /\ translate_io_flags(AVAHI_WATCH_IN) = PA_IO_EVENT_INPUT
    /\ translate_io_flags(AVAHI_WATCH_OUT) = PA_IO_EVENT_OUTPUT
    /\ translate_io_flags(AVAHI_WATCH_ERR) = PA_IO_EVENT_ERROR
    /\ translate_io_flags(AVAHI_WATCH_HUP) = PA_IO_EVENT_HANGUP
    /\ translate_io_flags_back(PA_IO_EVENT_INPUT) = AVAHI_WATCH_IN
    /\ translate_io_flags_back(PA_IO_EVENT_OUTPUT) = AVAHI_WATCH_OUT
    /\ translate_io_flags_back(PA_IO_EVENT_ERROR) = AVAHI_WATCH_ERR
    /\ translate_io_flags_back(PA_IO_EVENT_HANGUP) = AVAHI_WATCH_HUP

C26_Witness ==
    /\ th.pc = "translate_io_flags_back"
    /\ u.pa = PA_IO_EVENT_OUTPUT + PA_IO_EVENT_ERROR + PA_IO_EVENT_HANGUP
    /\ th.out = AVAHI_WATCH_OUT + AVAHI_WATCH_ERR + AVAHI_WATCH_HUP
    /\ th.again = u.pa

\* every live watch and timeout owns one live event of the main loop, which
\* carries it as userdata; every live event is owned; nothing was released
\* that was not live
BridgeOwnership ==
    /\ \A w \in WatchIds : u.watch[w].live =>
          /\ u.watch[w].io_event \in IoIds
          /\ u.io[u.watch[w].io_event].live
          /\ u.io[u.watch[w].io_event].userdata = w
    /\ \A e \in IoIds : u.io[e].live =>
          /\ u.io[e].userdata \in WatchIds
          /\ u.watch[u.io[e].userdata].live
          /\ u.watch[u.io[e].userdata].io_event = e
    /\ \A t \in TimeoutIds : u.timeout[t].live =>
          /\ u.timeout[t].time_event \in TimeIds
          /\ u.time[u.timeout[t].time_event].live
          /\ u.time[u.timeout[t].time_event].userdata = t
    /\ \A e \in TimeIds : u.time[e].live =>
          /\ u.time[e].userdata \in TimeoutIds
          /\ u.timeout[u.time[e].userdata].live
          /\ u.timeout[u.time[e].userdata].time_event = e
    /\ ~u.bad_free

\* a step that frees a watch or a timeout releases the event its new
\* created, and no other; a step that creates one creates one event; no
\* other step creates or releases an event
FreeReleasesOwn ==
    /\ \A w \in WatchIds :
          /\ u.watch[w].live /\ ~u'.watch[w].live
                => u'.io = [u.io EXCEPT ![u.watch[w].io_event] = NoIo]
          /\ ~u.watch[w].live /\ u'.watch[w].live
                => \E e \in IoIds : /\ ~u.io[e].live
                                    /\ u'.watch[w].io_event = e
                                    /\ u'.io = [u.io EXCEPT ![e] = u'.io[e]]
          /\ u.watch[w].live /\ u'.watch[w].live
                => u'.watch[w].io_event = u.watch[w].io_event
    /\ (\A w \in WatchIds : u'.watch[w].live = u.watch[w].live)
          => \A e \in IoIds : u'.io[e].live = u.io[e].live
    /\ \A t \in TimeoutIds :
          /\ u.timeout[t].live /\ ~u'.timeout[t].live
                => u'.time = [u.time EXCEPT ![u.timeout[t].time_event] = NoTime]
          /\ ~u.timeout[t].live /\ u'.timeout[t].live
                => \E e \in TimeIds : /\ ~u.time[e].live
                                      /\ u'.timeout[t].time_event = e
                                      /\ u'.time = [u.time EXCEPT ![e] = u'.time[e]]
          /\ u.timeout[t].live /\ u'.timeout[t].live
                => u'.timeout[t].time_event = u.timeout[t].time_event
    /\ (\A t \in TimeoutIds : u'.timeout[t].live = u.timeout[t].live)
          => \A e \in TimeIds : u'.time[e].live = u.time[e].live

\* C27: after any sequence of watch and timeout calls every live watch or
\* timeout owns exactly one main-loop event, each free releases exactly the
\* event its new created, and no event is leaked or released twice.
C27_EventsOwnedAndReleased ==
    []BridgeOwnership /\ [][FreeReleasesOwn]_vars

C27_Witness ==
    /\ th.pc = "callback"
    /\ th.freed
    /\ \A e \in IoIds : ~u.io[e].live
    /\ \A w \in WatchIds : ~u.watch[w].live
    /\ \A t \in TimeoutIds : u.timeout[t].live
    /\ \A e \in TimeIds : u.time[e].live /\ u.time[e].tv = "soon"

(***************************************************************************)
(* Claims about suspending and about the wake-up of the capture thread.    *)
(***************************************************************************)
\* the step that dispatches SET_STATE(SUSPENDED) on the capture thread
SuspendDispatched ==
    /\ inq.code = "SET_STATE" /\ inq.data = "SUSPENDED"
    /\ ~inq.done /\ inq'.done

\* C28: SET_STATE(SUSPENDED) is dispatched only while the thread-side state
\* is RUNNING or IDLE and the handle is open, so neither assertion fails;
\* after it the handle is closed, the poll-fd item freed, the smoother
\* paused and the state SUSPENDED, and nothing else of the engine changed:
\* not read_count, not the geometry.
C28_SuspendFromOpened ==
    [][ SuspendDispatched
          => /\ Opened(u.state)
             /\ u.pcm_handle
             /\ inq'.ret = 0
             /\ mainth'.pc # "aborted"
             /\ u' = [u EXCEPT !.pcm_handle = FALSE,
                               !.alsa_rtpoll_item = FALSE,
                               !.smoother_paused = TRUE,
                               !.state = "SUSPENDED"] ]_vars

C28_Witness ==
    /\ inq.code = "SET_STATE" /\ inq.data = "SUSPENDED" /\ inq.done /\ inq.ret = 0
    /\ u.state = "SUSPENDED"
    /\ ~u.pcm_handle /\ ~u.alsa_rtpoll_item /\ u.smoother_paused
    /\ u.read_count > 0
    /\ snap.set /\ snap.read_count = u.read_count
    /\ th.pc = "revents"


\* C29: after a wake in an opened state, revents with a bit other than
\* POLLIN make the engine run the poll recovery and then start the driver; a
\* failed recovery or a failed revents query takes the fatal exit; revents
\* with no other bit than POLLIN bring neither recovery nor start.
C29_RecoverOnOtherBits ==
    th.pc \in {"loop", "fail"} /\ th.wake # "none"
        => IF th.wake = "query_failed"
           THEN th.pc = "fail"
           ELSE IF th.revents \ {"POLLIN"} # {}
           THEN \/ th.wake = "recovered" /\ th.pc = "loop"
                \/ th.wake = "recover_failed" /\ th.pc = "fail"
           ELSE th.wake = "plain" /\ th.pc = "loop"

C29_Witness ==
    /\ th.pc = "loop"
    /\ th.wake = "recovered"
    /\ th.revents = {"POLLIN", "POLLERR"}
    /\ u.state = "RUNNING"
    /\ u.read_count > 0

\* the polled flag while a read path is entered, runs, and after a wake
PolledFromLastWake ==
    \* thread_func passes revents & POLLIN
    /\ th.pc = "loop" /\ th'.pc = "avail"
          => th'.polled = (th.wake \in {"plain", "recovered"} /\ "POLLIN" \in th.revents)
    \* revents are the driver's answer in an opened state, 0 in any other
    /\ th.pc = "revents" /\ th'.pc = "loop"
          => /\ (th'.wake # "none") = Opened(u.state)
             /\ "POLLIN" \in th'.revents => Opened(u.state) /\ th.wake = "fired"
    \* inside a path the flag is cleared when the first round begins and is
    \* never set
    /\ th.pc = "avail" /\ th'.pc \in {"begin", "readi"} => ~th'.polled
    /\ th.pc \in ReadPcs /\ th'.polled => th.polled

PolledOnlyAtEntry ==
    /\ th.pc = "loop" /\ th.wake = "none" => th.revents = {}
    \* while the flag is set no read round has begun
    /\ th.polled => /\ th.pc \notin {"begin", "commit", "readi"}
                    /\ th.j = 0
                    /\ ~th.work_done

\* C30: the polled flag passed to a read path is true exactly when the wake
\* just before happened in an opened state and its revents included POLLIN:
\* it is false on the first iteration, after a wake by the timer or a message
\* alone, after a wake in a state that is not opened, and it is cleared once
\* the first read round has begun.
C30_PolledIsLastWakesPollin ==
    []PolledOnlyAtEntry /\ [][PolledFromLastWake]_vars

C30_Witness ==
    /\ th.pc = "avail"
    /\ th.polled
    /\ u.state = "RUNNING"
    /\ u.read_count > 0
    /\ snap = [set |-> FALSE]
    /\ u.once # {}


\* ---------------------------------------------------------------------------
\* C31: on the mmap path every region is committed after its fixed chunk was
\* posted and released.  At each successful snd_pcm_mmap_commit the engine
\* holds no reference to the chunk, the chunk spans exactly the frames that
\* are committed, these are the granted frames capped to the pool's block
\* size, and they are committed at the granted offset.
RegionCommitted ==
    /\ th.pc = "commit"
    /\ u'.read_count # u.read_count

C31_CommitStep ==
    RegionCommitted =>
        /\ ~th.chunk.held
        /\ th.chunk.length = th.frames * u.frame_size
        /\ th.frames = (IF th.chunk.granted > MempoolBlockFrames
                        THEN MempoolBlockFrames ELSE th.chunk.granted)
        /\ hw - hw' = th.frames
        /\ u'.read_count - u.read_count = th.chunk.length
        /\ th.chunk.offset = appl_offset(u)
        /\ posted' = posted

C31_ChunkOnlyWhileMapped ==
    IF th.pc = "commit"
    THEN th.chunk.length > 0 /\ ~th.chunk.held
    ELSE th.chunk = NoChunk

C31_PostReleaseCommit ==
    []C31_ChunkOnlyWhileMapped /\ [][C31_CommitStep]_vars

\* a region larger than the pool's block size was granted, posted capped and
\* released, and is about to be committed
C31_Witness ==
    /\ th.pc = "commit"
    /\ th.chunk.granted > th.frames
    /\ th.chunk.length = th.frames * u.frame_size
    /\ ~th.chunk.held


\* ---------------------------------------------------------------------------
\* C32: the main thread releases the driver handle and the poll-fd item only
\* after the capture thread has ended.  While the thread lives, the handle
\* and the item change only where the thread itself dispatches a message;
\* userdata_free releases them after SHUTDOWN was answered and the thread was
\* joined, and the thread starts on a fully constructed engine.
ResourcesChanged ==
    \/ u'.pcm_handle # u.pcm_handle
    \/ u'.alsa_rtpoll_item # u.alsa_rtpoll_item

ReleasedByMain ==
    /\ mainth.pc = "join"
    /\ mainth'.pc = "freed"
    /\ th.pc = "done"
    /\ th' = th

C32_ReleaseStep ==
    ResourcesChanged => (th.pc \in {"poll", "drain"} /\ th.pc # "done") \/ ReleasedByMain

C32_FreedAfterThread ==
    /\ mainth.pc = "freed" => th.pc = "done" /\ inq = NoMsg
    /\ mainth.pc = "new" /\ th.pc = "loop" /\ ~th.ran => u.pcm_handle /\ u.state = "INIT"

C32_NoReleaseWhileThreadLives ==
    []C32_FreedAfterThread /\ [][C32_ReleaseStep]_vars

\* userdata_free has released a handle that was open when the thread ended
C32_Witness ==
    /\ mainth.pc = "freed"
    /\ th.pc = "done"
    /\ ~u.pcm_handle
    /\ ~u.smoother_paused
    /\ u.state = "UNLINKED"


(***************************************************************************)
(* One pass through a read path with a device that keeps delivering: the   *)
(* engine is RUNNING, the thread is at the top of its loop after a wake,   *)
(* and the device holds RoundFrames frames in all, enough for the path to  *)
(* reach its limit of ten rounds.                                          *)
(***************************************************************************)
RoundFrames == 14

\* the engine after pa_source_put and, with timer scheduling, after a
\* consumer may have asked for a latency
RoundsEngine(a, l) ==
    LET put(w) == source_process_msg(w, Msg("SET_STATE", "RUNNING", NoLatency), AllFine)[1]
        ask(w) == IF w.use_tsched /\ l # NoLatency
                  THEN source_process_msg(w, Msg("SET_REQUESTED_LATENCY", "", l), AllFine)[1]
                  ELSE w
    IN  ask(put(pa_alsa_source_new(a)))

RoundsInit ==
    /\ \E a \in CaptureArgs, l \in CaptureLatencies : u = RoundsEngine(a, l)
    /\ \E r \in {{}, {"POLLIN"}} : th = ThreadIdle("loop", r, TimerOff)
    /\ inq = NoMsg
    /\ mainth = [pc |-> "idle", state |-> "RUNNING", after |-> "", want |-> ""]
    /\ posted = 0
    /\ unload = 0
    /\ hw = RoundFrames
    /\ faults = MaxFaults
    /\ snap = [set |-> FALSE]

RoundsNext ==
    \/ ThreadLoop
    \/ ThreadAvail
    \/ ThreadMmapBegin
    \/ ThreadMmapCommit
    \/ ThreadReadi
    \/ ThreadSmooth

SpecRounds == RoundsInit /\ [][RoundsNext]_vars

\* ---------------------------------------------------------------------------
\* C33: the sleep_usec a read path returns, time(left_to_record) minus
\* process_usec in unsigned 64-bit arithmetic, never wraps: whenever a path
\* returns a non-negative result, time(left_to_record) >= process_usec, also
\* after an overrun and when the limit of ten rounds ended the loop.
C33_SleepNeverWraps ==
    th.pc = "smooth" /\ th.ret >= 0 =>
        /\ ~ULess(pa_bytes_to_usec(th.left_to_record, sample_spec(u)), th.process_usec)
        /\ th.sleep_usec >= 0


\* ---------------------------------------------------------------------------
\* C34: a resume that fails at any step of unsuspend leaves the engine
\* suspended and consistent: the handle is closed, there is no poll-fd item,
\* the smoother stays paused, the thread-side state stays SUSPENDED, no read
\* path runs while the engine is suspended, and a resume that the driver
\* then answers without fault succeeds.
ResumeFailed ==
    /\ ResumeAnswered
    /\ inq'.ret < 0

C34_FailedResumeStep ==
    ResumeFailed =>
        /\ ~u'.pcm_handle
        /\ ~u'.alsa_rtpoll_item
        /\ u'.smoother_paused
        /\ u'.state = "SUSPENDED"
        /\ th'.pc \in {"revents", "drain"}
        /\ \A again \in { unsuspend(u', AllFine) } :
               /\ again[2] = 0
               /\ again[1].pcm_handle
               /\ again[1].alsa_rtpoll_item
               /\ ~again[1].smoother_paused

C34_NoReadWhileClosed ==
    th.pc \in {"avail", "begin", "commit", "readi", "smooth"} =>
        Opened(u.state) /\ u.pcm_handle /\ u.alsa_rtpoll_item

C34_FailedResumeStaysSuspended ==
    []C34_NoReadWhileClosed /\ [][C34_FailedResumeStep]_vars

\* a resume has failed although the driver settled on the original
\* configuration (the open, the sw-params or the poll descriptors failed),
\* and the thread has gone round its loop again without reading
C34_Witness ==
    /\ u.state = "SUSPENDED"
    /\ inq.code = "SET_STATE"
    /\ inq.data \in {"IDLE", "RUNNING"}
    /\ inq.done
    /\ inq.ret < 0
    /\ u.negotiated = Config(u)
    /\ ~u.pcm_handle
    /\ ~u.alsa_rtpoll_item
    /\ u.smoother_paused
    /\ th.pc = "poll"


\* ---------------------------------------------------------------------------
\* C35: over any sequence of state messages the smoother is paused by every
\* suspend and resumed by every successful resume and by nothing else, a
\* pause finds it running and a resume finds it paused, so the calls
\* alternate starting with a pause; while the engine exists the smoother is
\* paused exactly while the driver handle is closed; update_smoother runs
\* and feeds a sample only with the handle open and the smoother running.
SmootherPauseCall ==
    SuspendDispatched /\ inq'.ret # AssertFailed

SmootherResumeCall ==
    ResumeAnswered /\ inq'.ret = 0

C35_PauseResumeStep ==
    /\ SmootherPauseCall => ~u.smoother_paused /\ u'.smoother_paused
    /\ SmootherResumeCall => u.smoother_paused /\ ~u'.smoother_paused
    /\ u'.smoother_paused # u.smoother_paused => SmootherPauseCall \/ SmootherResumeCall

C35_PausedIffClosed ==
    /\ mainth.pc # "freed" => (u.smoother_paused <=> ~u.pcm_handle)
    /\ mainth.pc = "new" => ~u.smoother_paused
    /\ th.pc = "smooth" \/ th.fed > 0 => u.pcm_handle /\ ~u.smoother_paused

C35_SmootherFollowsHandle ==
    []C35_PausedIffClosed /\ [][C35_PauseResumeStep]_vars

\* the engine has run and read data, then it was suspended: the smoother
\* is paused and the handle closed
C35_Witness ==
    /\ u.smoother_paused
    /\ ~u.pcm_handle
    /\ u.state = "SUSPENDED"
    /\ snap.set
    /\ snap.read_count > 0
    /\ mainth.pc = "idle"


(***************************************************************************)
(* Overrun after overrun: an engine with timer scheduling, constructed and *)
(* perhaps given a latency once, whose read paths then meet nothing but    *)
(* overruns.                                                               *)
(***************************************************************************)
\* the buffer geometry is within its bands
GeometryOk(w) ==
    LET max_use == w.hwbuf_size - w.hwbuf_unused
        max_use_2 == pa_frame_align(max_use \div 2, sample_spec(w))
    IN  /\ w.frame_size <= w.min_sleep /\ w.min_sleep <= max_use_2
        /\ w.frame_size <= w.min_wakeup /\ w.min_wakeup <= max_use_2
        /\ ~ULess(w.tsched_watermark, w.min_wakeup)
        /\ ~ULess(max_use - w.min_sleep, w.tsched_watermark)

OverrunInit ==
    /\ \E a \in NewArgs :
        LET w == pa_alsa_source_new(a)
        IN  /\ w.use_tsched
            /\ \E l \in RequestableLatencies(w) :
                  u = source_update_requested_latency_cb([w EXCEPT !.requested_latency = l], TRUE)
    /\ th = [pc |-> "overrun",
             ok |-> GeometryOk(u) /\ u.watermark_step > 0,
             tsched_watermark |-> u.tsched_watermark,
             min_latency |-> u.min_latency]
    /\ inq = [code |-> "NONE"]
    /\ mainth = [pc |-> "none"]
    /\ posted = 0
    /\ unload = 0
    /\ hw = 0
    /\ faults = 0
    /\ snap = [set |-> FALSE]

\* check_left_to_record finds an overrun
OverrunAdjust ==
    /\ u.use_tsched
    /\ u' = adjust_after_overrun(u)
    /\ UNCHANGED << th, inq, mainth, posted, unload, hw, faults, snap >>

OverrunNext ==
    OverrunAdjust

SpecOverrun == OverrunInit /\ [][OverrunNext]_vars /\ WF_vars(OverrunAdjust)

\* ---------------------------------------------------------------------------
\* C36: from a state within the geometry bands and with watermark_step > 0,
\* repeated calls of adjust_after_overrun reach a state that further calls
\* leave alone, and no call lowers tsched_watermark or the minimum latency.
OverrunSettled ==
    adjust_after_overrun(u) = u

C36_NeverLowers ==
    th.ok =>
        /\ ~ULess(u'.tsched_watermark, u.tsched_watermark)
        /\ ~ULess(u'.min_latency, u.min_latency)
        /\ GeometryOk(u')

C36_OverrunsSettle ==
    /\ [][C36_NeverLowers]_vars
    /\ (th.ok ~> []OverrunSettled)

\* the adjuster has raised the watermark, then the minimum latency, and has
\* come to rest
C36_Witness ==
    /\ th.ok
    /\ OverrunSettled
    /\ u.tsched_watermark > th.tsched_watermark
    /\ u.min_latency > th.min_latency


\* ---------------------------------------------------------------------------
\* C37: whatever the mmap and tsched arguments, the availability of
\* high-resolution timers and the access modes the driver grants, the
\* constructed engine has use_tsched only with use_mmap; so the copy path
\* never runs with timer scheduling, and neither flag changes afterwards.
C37_TschedOnlyWithMmap ==
    /\ u.use_tsched => u.use_mmap
    /\ th.pc = "readi" => ~u.use_mmap /\ ~u.use_tsched
    /\ th.pc \in {"begin", "commit"} => u.use_mmap

C37_FlagsKept ==
    /\ u'.use_mmap = u.use_mmap
    /\ u'.use_tsched = u.use_tsched

C37_TschedImpliesMmap ==
    []C37_TschedOnlyWithMmap /\ [][C37_FlagsKept]_vars

\* the copy path runs in an engine that was asked for timer scheduling, with
\* high-resolution timers and a driver granting it, but without mmap
C37_Witness ==
    /\ th.pc = "readi"
    /\ ~u.use_tsched
    /\ \E a \in CaptureArgs :
          /\ a.tsched /\ a.hrtimer /\ a.d /\ ~(a.mmap /\ a.b)
          /\ Config(pa_alsa_source_new(a)) = Config(u)


\* ---------------------------------------------------------------------------
\* C38: the bridge never reads or writes a watch that watch_free has
\* released, also when the user's callback frees its own watch during the
\* dispatch; and watch_get_events answers the translated events of the
\* dispatch in progress inside that watch's callback and 0 at any other time.
C38_GetEventsOnlyInCallback ==
    \A w \in WatchIds :
        u.watch[w].live =>
            watch_get_events(u, w) =
                (IF th.pc = "callback" /\ th.w = w /\ ~th.freed
                 THEN translate_io_flags_back(th.events)
                 ELSE 0)

C38_NoUseAfterFree ==
    /\ th.pc # "wrote_freed"
    /\ ~u.clobbered
    /\ C38_GetEventsOnlyInCallback

====
